---- MODULE Spec2Model ----
(***************************************************************************)
(* A model of the DataVisualiser animation export pipeline                 *)
(* (src/src/components/ExportAnimation.tsx).                               *)
(*                                                                         *)
(* The ExportAnimation component is modelled as a state machine over its   *)
(* React state (isExporting, exportProgress, exportStatus, exportType),    *)
(* its refs (mediaRecorderRef, recordedChunksRef), the timers, object URLs *)
(* and listeners it creates, and the continuation each asynchronous export *)
(* is waiting in.  One action is one run of a handler or callback on the   *)
(* single-threaded event loop, from its start to its first suspension.     *)
(*                                                                         *)
(* Time: the only durations the model measures are those of a live         *)
(* recording, counted in seconds (the period of the progress interval).    *)
(* A timer that is due fires before time moves on.                         *)
(***************************************************************************)
EXTENDS Integers, Sequences, FiniteSets, TLC

\* ------------------------------------------------------------------ bounds
\* Longest x_columns / y_columns list of a configuration an export runs on.
MaxCols == 2
\* Largest animation_speed (seconds per frame) of a configuration an export
\* runs on.
MaxSpeed == 1
\* The same two for the configurations the recording duration is computed of.
MaxDurationCols == 3
MaxDurationSpeed == 2
\* Frame grabs of one recording the model follows.
MaxGrabs == 2
\* Data chunks of one recording the model follows.
MaxChunks == 1
\* Largest frame count of a recorded video (floor(video.duration * 30)).
MaxGifFrames == 2
\* Capture scripts that outlive their capture's timeout.
MaxOrphans == 1
\* Longest point array an animator holds, and the largest coordinate.
MaxPoints == 3
MaxCoord == 1
\* Largest size a point carries.
MaxSize == 1
\* Most rows binData is given, the largest magnitude of a category value, and
\* the most bins asked for.
\* The progress values an easing is applied to are the multiples of
\* 1 / EasingSteps in [0, 1].
EasingSteps == 4
MaxRows == 3
MaxBinValue == 2
MaxBins == 3
\* Longest animation duration, in half seconds, and the highest fps.
MaxHalfSeconds == 2
MaxFps == 5
\* The same for the animators whose frames are drawn one by one.
MaxDrawPoints == 2
MaxDrawFps == 3
\* The same for the animators whose calls the model interleaves: all their
\* points are equal, so their arrays differ in length only.
MaxDriverPoints == 2
MaxDriverHalfSeconds == 2
MaxDriverFps == 2
\* playPreview calls running at once that the model follows.
MaxLoops == 2
\* Timeout periods (of 60 s) a backend round trip is followed for.
MaxPeriods == 2
\* Longest x_columns / y_columns selection the controls build, and the most
\* numeric columns of a loaded data set.
MaxSelected == 2
MaxColumns == 2
\* Interval timers the App has created and still refers to or runs.
MaxIntervals == 3
\* Largest animation_speed the slider is set to.
MaxSliderSpeed == 2

\* --------------------------------------------------------- program constants
\* recordLiveAnimation: (config.animation_speed || 2)
DefaultAnimationSpeed == 2
\* recordLiveAnimation: cycleDuration * 2
RecordedCycles == 2
\* recordLiveAnimation: Math.min(newProgress, 95), setExportProgress(95)
ProgressCap == 95
\* recordLiveAnimation: the progress interval's period, 1000 ms
ProgressPeriodMs == 1000
\* executeCaptureScript: setTimeout(..., 60000)
CaptureTimeoutMs == 60000

\* ------------------------------------------------------------- optional values
None == <<>>
Some(v) == <<v>>
IsSome(o) == o # None
Get(o) == o[1]

\* ---------------------------------------------------------------- rationals
\* exportProgress is a JavaScript number; the model keeps it exact, as a
\* fraction <<numerator, denominator>> in lowest terms.
RECURSIVE Gcd(_, _)
Gcd(a, b) == IF b = 0 THEN a ELSE Gcd(b, a % b)
Rat(n, d) == LET g == Gcd(n, d) IN IF g = 0 THEN <<0, 1>> ELSE <<n \div g, d \div g>>
RatInt(n) == <<n, 1>>
RatAdd(p, q) == Rat(p[1] * q[2] + q[1] * p[2], p[2] * q[2])
RatLeq(p, q) == p[1] * q[2] <= q[1] * p[2]
RatMin(p, q) == IF RatLeq(p, q) THEN p ELSE q
RatSub(p, q) == Rat(p[1] * q[2] - q[1] * p[2], p[2] * q[2])
RatMul(p, q) == Rat(p[1] * q[1], p[2] * q[2])
RatLt(p, q) == p[1] * q[2] < q[1] * p[2]
\* Math.floor
Floor(p) == p[1] \div p[2]
\* 0 / 0, and what arithmetic makes of it
NaN == <<0, 0>>
IsNaN(p) == p[2] = 0
\* n / d of two integers, n >= 0 and d >= 0, not n > 0 = d
RatDiv(n, d) == IF d = 0 THEN NaN ELSE Rat(n, d)
Max(a, b) == IF a >= b THEN a ELSE b
\* The entries of a list.
Entries(list) == {list[k] : k \in DOMAIN list}

\* ------------------------------------------------------------ configuration
XNames == <<"a", "b", "c", "d", "e">>
YNames == <<"p", "q", "r", "s", "t">>
XLists(cols) == {SubSeq(XNames, 1, n) : n \in 0..cols}
YLists(cols) == {SubSeq(YNames, 1, n) : n \in 0..cols}

\* ChartConfig, the fields the export pipeline reads.  x_columns, y_columns
\* are optional (None: undefined); animation_speed 0 stands for an absent
\* (falsy) animation_speed.
ChartConfigs(cols, speed) ==
    [ animation_enabled : BOOLEAN,
      x_column : {"a"},
      y_column : {"p"},
      x_columns : {None} \cup {Some(l) : l \in XLists(cols)},
      y_columns : {None} \cup {Some(l) : l \in YLists(cols)},
      animation_speed : 0..speed ]
Configs == ChartConfigs(MaxCols, MaxSpeed)

\* config.x_columns || [config.x_column]
XColumns(c) == IF IsSome(c.x_columns) THEN Get(c.x_columns) ELSE <<c.x_column>>
YColumns(c) == IF IsSome(c.y_columns) THEN Get(c.y_columns) ELSE <<c.y_column>>

\* const canExport = config.animation_enabled && (x_columns.length > 1 || y_columns.length > 1)
CanExportLoose(c) ==
    c.animation_enabled
    \/ (IsSome(c.x_columns) /\ Len(Get(c.x_columns)) > 1)
    \/ (IsSome(c.y_columns) /\ Len(Get(c.y_columns)) > 1)
CanExport(c) ==
    /\ c.animation_enabled
    /\ \/ (IsSome(c.x_columns) /\ Len(Get(c.x_columns)) > 1)
       \/ (IsSome(c.y_columns) /\ Len(Get(c.y_columns)) > 1)

\* (config.animation_speed || 2)
AnimationSpeed(c) ==
    IF c.animation_speed = 0 THEN DefaultAnimationSpeed ELSE c.animation_speed

\* recordLiveAnimation: recordingDuration, in milliseconds
RecordingDurationOneCycle(c) ==
    AnimationSpeed(c) * Max(Len(XColumns(c)), Len(YColumns(c))) * 1000
RecordingDuration(c) ==
    LET totalFrames == Max(Len(XColumns(c)), Len(YColumns(c)))
        cycleDuration == AnimationSpeed(c) * totalFrames * 1000
    IN  cycleDuration * RecordedCycles

\* -------------------------------------------------------------- mime types
MimeMkv == "video/x-matroska;codecs=avc1"
MimeWebm == "video/webm;codecs=vp9,opus"
MimeVp9 == "video/webm;codecs=vp9"
MimePlainWebm == "video/webm"
MimeTypes == {MimeMkv, MimeWebm, MimeVp9}

GetMimeType(format) ==
    CASE format = "mkv" -> MimeMkv
      [] format = "webm" -> MimeWebm
      [] OTHER -> MimeVp9

GetFileExtension(format) == IF format = "mkv" THEN "mkv" ELSE "webm"

\* ------------------------------------------------- ChartAnimator: the frames
\* (src/src/utils/dataUtils.ts)  Numbers are kept exact: the model computes in
\* fractions what the program computes in double-precision floating point.
Easings == {"linear", "easeInOut", "easeIn", "easeOut"}

\* A DataPoint: x, y and the optional size.
DataPoints(coords, sizes) == [x : coords, y : coords, size : {None} \cup {Some(z) : z \in sizes}]

\* The point arrays of at most n points.
RECURSIVE Arrays(_, _)
Arrays(points, n) ==
    IF n = 0 THEN {<<>>}
    ELSE LET shorter == Arrays(points, n - 1)
         IN  shorter \cup {Append(a, pt) : a \in {b \in shorter : Len(b) = n - 1}, pt \in points}

\* An AnimationConfig: duration (seconds, a fraction), fps, easing.
AnimationConfigs(halfSeconds, fps, easings) ==
    [duration : {Rat(k, 2) : k \in 0..halfSeconds}, fps : 1..fps, easing : easings]

\* The AnimationConfig BrowserChartAnimation constructs its animator with.
ComponentConfig == [duration |-> RatInt(5), fps |-> 30, easing |-> "easeInOut"]

EaseInOutWithoutOffset(t) ==
    IF RatLt(t, Rat(1, 2))
    THEN RatMul(RatInt(2), RatMul(t, t))
    ELSE RatMul(RatSub(RatInt(4), RatMul(RatInt(2), t)), t)
EaseInOut(t) ==
    IF RatLt(t, Rat(1, 2))
    THEN RatMul(RatInt(2), RatMul(t, t))
    ELSE RatSub(RatMul(RatSub(RatInt(4), RatMul(RatInt(2), t)), t), RatInt(1))
EaseIn(t) == RatMul(t, t)
EaseOutAndBack(t) == RatMul(RatInt(4), RatMul(t, RatSub(RatInt(1), t)))
EaseOut(t) == RatMul(t, RatSub(RatInt(2), t))
ApplyEasing(easing, progress) ==
    IF IsNaN(progress) THEN NaN
    ELSE CASE easing = "easeInOut" -> EaseInOut(progress)
           [] easing = "easeIn" -> EaseIn(progress)
           [] easing = "easeOut" -> EaseOut(progress)
           [] OTHER -> progress

\* [...this.data].sort((a, b) => a.x - b.x): a stable sort by x.
RECURSIVE SortByX(_)
SortByX(data) ==
    IF data = <<>> THEN <<>>
    ELSE LET sorted == SortByX(SubSeq(data, 1, Len(data) - 1))
             last == data[Len(data)]
             keep == Cardinality({i \in 1..Len(sorted) : sorted[i].x <= last.x})
         IN  SubSeq(sorted, 1, keep) \o <<last>> \o SubSeq(sorted, keep + 1, Len(sorted))

\* const startY = targetY + 50
EntryOffset == 50
\* const targetSize = point.size || 5
DefaultPointSize == 5
TargetSizeKeepingZero(point) ==
    IF IsSome(point.size) THEN Get(point.size) ELSE DefaultPointSize
TargetSize(point) ==
    IF IsSome(point.size) /\ Get(point.size) # 0 THEN Get(point.size) ELSE DefaultPointSize

\* The point the inner loop pushes at index i (from 0) of a frame.
FramePoint(sortedData, easedProgress, pointsToShow, i) ==
    LET point == sortedData[i + 1]
        entryProgress == RatSub(RatMul(easedProgress, RatInt(Len(sortedData))),
                                RatInt(pointsToShow))
    IN  IF i = pointsToShow - 1 /\ pointsToShow < Len(sortedData)
        THEN [x |-> point.x,
              y |-> RatAdd(RatInt(point.y + EntryOffset),
                           RatMul(RatSub(RatInt(0), RatInt(EntryOffset)), entryProgress)),
              size |-> Some(RatMul(RatInt(TargetSize(point)), entryProgress)),
              opacity |-> entryProgress]
        ELSE [x |-> point.x,
              y |-> RatInt(point.y),
              size |-> IF IsSome(point.size) THEN Some(RatInt(Get(point.size))) ELSE None,
              opacity |-> RatInt(1)]

\* The frame the outer loop pushes at frameIndex (from 0).  A NaN
\* pointsToShow ends the inner loop before its first pass.
Frame(sortedData, easing, totalFrames, frameIndex) ==
    LET rawProgress == RatDiv(frameIndex, totalFrames - 1)
        easedProgress == ApplyEasing(easing, rawProgress)
        pointsToShow ==
            IF IsNaN(easedProgress) THEN 0
            ELSE Floor(RatMul(easedProgress, RatInt(Len(sortedData))))
    IN  [data |-> [k \in 1..pointsToShow |->
                      FramePoint(sortedData, easedProgress, pointsToShow, k - 1)],
         progress |-> rawProgress]

\* const totalFrames = Math.floor(this.config.duration * this.config.fps)
TotalFramesRounded(cfg) ==
    Floor(RatAdd(RatMul(cfg.duration, RatInt(cfg.fps)), Rat(1, 2)))
TotalFrames(cfg) == Floor(RatMul(cfg.duration, RatInt(cfg.fps)))

\* What generateFrames returns on an animator of this data and this config.
GeneratedFrames(data, cfg) ==
    IF Len(data) = 0 THEN <<>>
    ELSE [k \in 1..TotalFrames(cfg) |->
             Frame(SortByX(data), cfg.easing, TotalFrames(cfg), k - 1)]

\* this.frames after generateFrames: on an empty data array generateFrames
\* returns before it assigns this.frames.
FramesAfterGenerate(a) ==
    IF Len(a.data) = 0 THEN a.frames ELSE GeneratedFrames(a.data, a.config)

\* width, height and padding of the AnimationConfig the component constructs.
CanvasWidth == 800
CanvasHeight == 600
PaddingTop == 40
PaddingRight == 40
PaddingBottom == 80
PaddingLeft == 80
ChartWidth == CanvasWidth - PaddingLeft - PaddingRight
ChartHeight == CanvasHeight - PaddingTop - PaddingBottom

\* Math.min(...values), Math.max(...values) of a non-empty array
MinOf(values) == CHOOSE v \in Entries(values) : \A w \in Entries(values) : v <= w
MaxOf(values) == CHOOSE v \in Entries(values) : \A w \in Entries(values) : v >= w

\* p / q of two numbers: 0 / 0 is NaN, any other division by 0 an infinity.
Infinity(sign) == <<sign, 0>>
Finite(p) == p[2] # 0
Quotient(p, q) ==
    IF q[1] # 0 THEN IF q[1] > 0 THEN Rat(p[1] * q[2], p[2] * q[1])
                                 ELSE Rat(0 - p[1] * q[2], 0 - p[2] * q[1])
    ELSE IF p[1] = 0 THEN NaN
    ELSE Infinity(IF p[1] > 0 THEN 1 ELSE 0 - 1)

\* const xPadding = (xMax - xMin) * 0.1; const xDomain = [xMin - xPadding, xMax + xPadding]
Domain(values) ==
    LET padding == Rat(MaxOf(values) - MinOf(values), 10)
    IN  <<RatSub(RatInt(MinOf(values)), padding), RatAdd(RatInt(MaxOf(values)), padding)>>

\* const normalized = (x - xDomain[0]) / (xDomain[1] - xDomain[0])
Normalized(v, domain) == Quotient(RatSub(v, domain[1]), RatSub(domain[2], domain[1]))

\* xScale: this.config.padding.left + normalized * chartWidth
XScale(x, xDomain) ==
    LET normalized == Normalized(x, xDomain)
    IN  IF Finite(normalized)
        THEN RatAdd(RatInt(PaddingLeft), RatMul(normalized, RatInt(ChartWidth)))
        ELSE normalized

\* yScale: this.config.height - this.config.padding.bottom - normalized * chartHeight
YScale(y, yDomain) ==
    LET normalized == Normalized(y, yDomain)
    IN  IF Finite(normalized)
        THEN RatSub(RatInt(CanvasHeight - PaddingBottom), RatMul(normalized, RatInt(ChartHeight)))
        ELSE <<0 - normalized[1], 0>>

\* getScales(): the two domains, and xScale and yScale as the pixels they
\* give the points of the data and the least x and y.  Over no data the
\* scales are the identity and the domains [0, 1].
GetScales(data) ==
    IF Len(data) = 0
    THEN [xDomain |-> <<RatInt(0), RatInt(1)>>, yDomain |-> <<RatInt(0), RatInt(1)>>,
          xPixels |-> <<>>, yPixels |-> <<>>]
    ELSE LET xValues == [i \in DOMAIN data |-> data[i].x]
             yValues == [i \in DOMAIN data |-> data[i].y]
         IN  [xDomain |-> Domain(xValues), yDomain |-> Domain(yValues),
              xPixels |-> [i \in DOMAIN data |-> XScale(RatInt(data[i].x), Domain(xValues))],
              yPixels |-> [i \in DOMAIN data |-> YScale(RatInt(data[i].y), Domain(yValues))]]

\* ---------------------------------------------------------------- drawFrame
\* A frame point has an opacity when the record carries the field.
HasOpacity(point) == "opacity" \in DOMAIN point

\* const opacity = point.opacity || 1: 0 and NaN are falsy.
Alpha(point) ==
    IF HasOpacity(point) /\ point.opacity[1] # 0 THEN point.opacity ELSE RatInt(1)

\* const size = (point.size || 5) * 2
Radius(point) ==
    IF IsSome(point.size) /\ Get(point.size)[1] # 0
    THEN RatMul(Get(point.size), RatInt(2))
    ELSE RatInt(DefaultPointSize * 2)

\* xScale(point.x) and yScale(point.y) of the scales getScales() returns on
\* this data: the identity over no data.
ScaledX(x, data) ==
    IF Len(data) = 0 THEN x ELSE XScale(x, Domain([i \in DOMAIN data |-> data[i].x]))
ScaledY(y, data) ==
    IF Len(data) = 0 THEN y ELSE YScale(y, Domain([i \in DOMAIN data |-> data[i].y]))

\* What drawFrame(frame) puts on the canvas of an animator of this data: a
\* circle per point of the frame, filled and stroked with the same alpha,
\* and the progress bar.
Drawn(frame, data) ==
    [circles |-> [i \in DOMAIN frame.data |->
                     [x |-> ScaledX(RatInt(frame.data[i].x), data),
                      y |-> ScaledY(frame.data[i].y, data),
                      radius |-> Radius(frame.data[i]),
                      fillAlpha |-> Alpha(frame.data[i]),
                      strokeAlpha |-> Alpha(frame.data[i])]],
     progress |-> frame.progress]

\* ------------------------------------------------------------------ binData
\* A row's value of the category column: Some(number), or None for null.

\* value.toFixed(2): the sign and the hundredths of the nearest number with
\* two decimals, a tie going away from zero.
ToFixed2(p) ==
    LET magnitude == IF p[1] < 0 THEN <<0 - p[1], p[2]>> ELSE p
    IN  [minus |-> p[1] < 0,
         hundredths |-> Floor(RatAdd(RatMul(magnitude, RatInt(100)), Rat(1, 2)))]

\* The category strings binData writes.
SingleBinLabel(minVal) == [kind |-> "single", value |-> ToFixed2(minVal)]
RangeLabel(binStart, binEnd) ==
    [kind |-> "range", start |-> ToFixed2(binStart), end |-> ToFixed2(binEnd)]
UnknownLabel == [kind |-> "Unknown"]

\* data.map(point => point[categoryColumn]).filter(val => val != null)
NotNull(val) == IsSome(val)
NonNullValues(data) ==
    LET kept == SelectSeq(data, NotNull) IN [i \in DOMAIN kept |-> Get(kept[i])]

\* if (value === maxVal)
IsMaxValueNever(value, maxVal) == FALSE
IsMaxValue(value, maxVal) == value = maxVal

\* getBinLabel(value)
GetBinLabel(value, minVal, maxVal, numBins) ==
    LET binWidth == Rat(maxVal - minVal, numBins)
    IN  IF IsMaxValue(value, maxVal)
        THEN RangeLabel(RatAdd(RatInt(minVal), RatMul(RatInt(numBins - 1), binWidth)),
                        RatInt(maxVal))
        ELSE LET binIndex == Floor(Quotient(RatInt(value - minVal), binWidth))
                 binStart == RatAdd(RatInt(minVal), RatMul(RatInt(binIndex), binWidth))
                 binEnd == RatAdd(binStart, binWidth)
             IN  RangeLabel(binStart, binEnd)

\* binData(data, categoryColumn, numBins, columns): a row is its value of
\* the category column; the result gives each row its category, or is the
\* data as it came ("as-is").
AsIs(data) == [i \in DOMAIN data |-> [kind |-> "as-is"]]
BinData(data, numBins, isNumeric) ==
    IF ~isNumeric THEN AsIs(data)
    ELSE IF Len(NonNullValues(data)) = 0 THEN AsIs(data)
    ELSE LET minVal == MinOf(NonNullValues(data))
             maxVal == MaxOf(NonNullValues(data))
         IN  IF minVal = maxVal
             THEN [i \in DOMAIN data |-> SingleBinLabel(RatInt(minVal))]
             ELSE [i \in DOMAIN data |->
                      IF ~NotNull(data[i]) THEN UnknownLabel
                      ELSE GetBinLabel(Get(data[i]), minVal, maxVal, numBins)]

\* new ChartAnimator(canvas, config)
NewAnimator(cfg) == [config |-> cfg, data |-> <<>>, frames |-> <<>>, isRecording |-> FALSE]

\* ------------------------------------------------------------------- state
VARIABLES
    \* props and platform
    config,            \* the config prop (ChartConfig)
    chartRef,          \* chartContainerRef.current is an element
    platform,          \* window.MediaRecorder and MediaRecorder.isTypeSupported
    \* React state of ExportAnimation
    isExporting,
    exportProgress,
    exportType,
    exportStatus,
    \* live recording
    recorders,         \* MediaRecorder objects in state 'recording'
    recFormat,         \* outputFormat in the closure of mediaRecorder.onstop
    recBlobType,       \* the Blob type in the closure of mediaRecorder.onstop
    recordedChunks,    \* recordedChunksRef.current.length
    onstopQueued,      \* a stop event waits to be dispatched
    captureIntervals,  \* active frame-grab intervals
    progressIntervals, \* active progress intervals
    stopTimeouts,      \* pending stop timeouts
    recordingDuration, \* ms, in the closure of the timers
    elapsed,           \* seconds since the recording's timers were started
    framesDrawn,       \* frame grabs drawn into the recording canvas
    grabWarnings,      \* console.warn('Frame capture error:') of the recording
    \* video -> GIF
    gifPhase,
    gifTotalFrames,
    gifCurrentFrame,
    gifFramesAdded,    \* the frame indices handed to gif.addFrame, in order
    \* backend-assisted capture
    brPhase,
    roundTrips,        \* backend round trips in flight
    requestsSent,      \* fetch calls of the round trip in flight
    capListener,       \* a captureComplete listener is registered
    capScriptInDoc,    \* the injected script element is in document.head
    capScriptRunning,  \* the pending capture's script has not signalled yet
    capTimeoutLive,    \* the 60 s timeout of a capture that has not settled
    orphanScripts,     \* scripts of timed-out captures that have not signalled yet
    \* shared effects
    resetTimeouts,     \* pending setTimeout(reset to idle, 2000 | 3000)
    liveUrls,          \* object URLs created and not revoked
    download,          \* the artifact the last export handed to the browser
    alertMsg,          \* the alert() text of the last export
    statusLog,         \* the exportStatus values the last export has rendered
    \* observation
    requested,         \* what the last export was asked to produce
    failed,            \* the last export took a failure path
    lastCall,          \* the control handler the last step called, if it called one
    \* BrowserChartAnimation (React state) and its ChartAnimator
    isPlaying,
    isRecording,
    animator,          \* the ChartAnimator: config, data, frames, isRecording
    previews,          \* the playPreview calls that have not returned
    recordings,        \* the recordToGif calls that have not settled
    animatorResult,    \* how the last call on the animator ended, or began
    returned,          \* what the last call returned, if it was a call of a function
    \* the time of one backend round trip, where it is measured
    roundTripAge,      \* ms since exportWithBrowser was called
    captureAge,        \* ms since executeCaptureScript set its timeout
    \* App (React state) and its column-cycling timers
    chartConfig,
    columns,           \* the column metadata last loaded
    animationIndex,
    animationInterval, \* the timer id in state, 0 for null
    cleanupInterval,   \* animationInterval as the last effect run's closure saw it
    intervals,         \* the interval timers that are active, with their closures
    lastUpdate,        \* the argument of handleConfigChange, if the last step called it
    mounted,           \* the App has not been unmounted
    binArgs,           \* the arguments of the binData call the model follows
    callerArray        \* the array last passed to setData, as its owner holds it:
                       \* its items, and whether this.data is that very array

animationVars == <<isPlaying, isRecording, animator, previews, recordings, animatorResult,
                   returned>>
clockVars == <<roundTripAge, captureAge>>
appVars == <<chartConfig, columns, animationIndex, animationInterval, cleanupInterval,
             intervals, lastUpdate, mounted>>
\* What no step of an export writes: the props, the platform, the state of
\* the animation panel and of the App, and the time.
propVars == <<config, chartRef, platform, binArgs, callerArray>>
envVars == <<propVars, animationVars, clockVars, appVars>>
reactVars == <<isExporting, exportProgress, exportStatus>>
closureVars == <<recFormat, recBlobType, recordingDuration, elapsed>>
timerVars == <<captureIntervals, progressIntervals, stopTimeouts>>
recVars == <<recorders, recordedChunks, onstopQueued, closureVars, timerVars>>
grabVars == <<framesDrawn, grabWarnings>>
gifVars == <<gifPhase, gifTotalFrames, gifCurrentFrame, gifFramesAdded>>
capVars == <<capListener, capScriptInDoc, capScriptRunning, capTimeoutLive, orphanScripts>>
brVars == <<brPhase, roundTrips, requestsSent>>
outVars == <<liveUrls, download, alertMsg>>
obsVars == <<requested, failed>>
exportVars == <<envVars, reactVars, exportType, recVars, grabVars, gifVars, capVars,
                brVars, resetTimeouts, outVars, statusLog, obsVars, lastCall>>
\* The state of ExportAnimation by itself.
\* The state ExportAnimation writes.
exportStateVars == <<reactVars, exportType, recVars, grabVars, gifVars, capVars, brVars,
                     resetTimeouts, outVars, statusLog, obsVars, lastCall>>
\* All but the animation panel, and all but the App.
pipelineVars == <<propVars, clockVars, appVars, exportStateVars>>
notAppVars == <<propVars, clockVars, animationVars, exportStateVars>>
vars == <<exportVars>>

Formats == {"gif", "webm", "mkv"}
ExportTypes == {"gif", "webm", "mkv", "python", "browser"}

\* A platform without MediaRecorder supports no type.
Platforms ==
    {[hasMediaRecorder |-> FALSE, supported |-> {}]}
    \cup [hasMediaRecorder : {TRUE}, supported : SUBSET MimeTypes]

\* An exportStatus value: a text, and the k/N of `Converting frame k/N...`.
Status(t) == [text |-> t, n |-> 0, of |-> 0]
FrameStatus(k, total) == [text |-> "Converting frame k/N...", n |-> k, of |-> total]
StatusFallback == "MKV not supported, using WebM..."

\* BrowserChartAnimation as mounted: an animator of one of these configs,
\* holding one of these point arrays (the data effect has called setData).
AnimationMounted(configs, arrays) ==
    /\ isPlaying = FALSE
    /\ isRecording = FALSE
    /\ animator \in {[NewAnimator(cfg) EXCEPT !.data = d] : cfg \in configs, d \in arrays}
    /\ previews = <<>>
    /\ recordings = <<>>
    /\ animatorResult = "none"
    /\ returned = None
    /\ callerArray = [items |-> animator.data, held |-> FALSE]

\* undefined, where a column name is expected
Undefined == "<undefined>"

\* useState<ChartConfig>({ ... }): the fields the model follows.
InitialChartConfig ==
    [ x_column |-> "x",
      y_column |-> "y",
      x_columns |-> Some(<<"x">>),
      y_columns |-> Some(<<"y">>),
      category_column |-> "category",
      size_column |-> "size",
      animation_enabled |-> FALSE,
      animation_speed |-> 2 ]

\* The arguments of a binData call: data (each row's value of the category
\* column), numBins, and is_numeric of the category column in columns.
BinArgs(rows, bins) == [data : rows, numBins : bins, isNumeric : BOOLEAN]
NoBinArgs == [data |-> <<>>, numBins |-> 5, isNumeric |-> FALSE]

\* App as mounted: the initial state, no columns loaded, no timer; args are
\* the arguments binData will be called with.
AppMountedOver(args) ==
    /\ binArgs \in args
    /\ chartConfig = InitialChartConfig
    /\ columns = <<>>
    /\ animationIndex = 0
    /\ animationInterval = 0
    /\ cleanupInterval = 0
    /\ intervals = {}
    /\ lastUpdate = None
    /\ mounted = TRUE

AppMounted == AppMountedOver({NoBinArgs})

\* ExportAnimation as mounted: nothing exported yet.
ExportMounted(configs, refs, platforms) ==
    /\ config \in configs
    /\ chartRef \in refs
    /\ platform \in platforms
    /\ isExporting = FALSE
    /\ exportProgress = RatInt(0)
    /\ exportType = "browser"
    /\ exportStatus = Status("")
    /\ recorders = 0
    /\ recFormat = "none"
    /\ recBlobType = "none"
    /\ recordedChunks = 0
    /\ onstopQueued = FALSE
    /\ captureIntervals = 0
    /\ progressIntervals = 0
    /\ stopTimeouts = 0
    /\ recordingDuration = 0
    /\ elapsed = 0
    /\ framesDrawn = 0
    /\ grabWarnings = 0
    /\ gifPhase = "none"
    /\ gifTotalFrames = 0
    /\ gifCurrentFrame = 0
    /\ gifFramesAdded = <<>>
    /\ brPhase = "none"
    /\ roundTrips = 0
    /\ requestsSent = 0
    /\ capListener = FALSE
    /\ capScriptInDoc = FALSE
    /\ capScriptRunning = FALSE
    /\ capTimeoutLive = FALSE
    /\ orphanScripts = 0
    /\ resetTimeouts = 0
    /\ liveUrls = {}
    /\ download = None
    /\ alertMsg = ""
    /\ statusLog = <<>>
    /\ requested = "none"
    /\ failed = FALSE
    /\ lastCall = "none"
    /\ roundTripAge = 0
    /\ captureAge = 0

\* The component as mounted, its animation panel holding no data.
Mounted(configs, refs, platforms) ==
    /\ ExportMounted(configs, refs, platforms)
    /\ AnimationMounted({ComponentConfig}, {<<>>})
    /\ AppMounted

ExportInit == Mounted(Configs, BOOLEAN, Platforms)

\* ------------------------------------------------------------ small helpers
\* setIsExporting(false); setExportProgress(0); setExportStatus('')
SetIdle ==
    /\ isExporting' = FALSE
    /\ exportProgress' = RatInt(0)
    /\ exportStatus' = Status("")

\* One run of a handler is one batch of state updates: the render that
\* follows it shows the last value the run passed to a setter.
Batched(values) == values[Len(values)]

\* A step that is a callback of a running export, not a call of a control.
Callback == lastCall' = "none"

\* The closure of a recording whose callbacks have all run is gone.
DropClosure ==
    /\ recFormat' = "none"
    /\ recBlobType' = "none"
    /\ recordingDuration' = 0
    /\ elapsed' = 0
    /\ framesDrawn' = 0
    /\ grabWarnings' = 0

\* An artifact handed to the browser: link.download's extension, the Blob's
\* type and the number of parts (chunks, frames, keyframes) it was built of.
Artifact(ext, type, parts) == [ext |-> ext, type |-> type, parts |-> parts]
Min(a, b) == IF a <= b THEN a ELSE b

\* <button onClick={handleExport} disabled={isExporting}>
ExportButtonNeverDisabled == FALSE
ExportButtonDisabled == isExporting

\* ------------------------------------------------------- live recording
\* if (!window.MediaRecorder) throw ...
HasMediaRecorderAssumed(p) == TRUE
HasMediaRecorder(p) == p.hasMediaRecorder

\* MediaRecorder.isTypeSupported(mimeType)
IsTypeSupported(p, mimeType) == mimeType \in p.supported

\* The format the recording is made in: recordLiveAnimation(outputFormat)
\* calls itself with 'webm' when outputFormat is 'mkv' and unsupported.
EffectiveFormat(p, outputFormat) ==
    IF ~IsTypeSupported(p, GetMimeType(outputFormat)) /\ outputFormat = "mkv"
    THEN "webm"
    ELSE outputFormat

\* The values passed to setExportStatus before the recorder is created: the
\* outer call's, and on the fallback its note followed by the inner call's
\* (the inner call runs to its end before the outer one's await suspends).
SetupStatuses(p, outputFormat) ==
    IF HasMediaRecorder(p) /\ EffectiveFormat(p, outputFormat) # outputFormat
    THEN <<"Setting up recording...", StatusFallback, "Setting up recording...">>
    ELSE <<"Setting up recording...">>

\* recorderOptions.mimeType
RecorderMimeType(p, format) ==
    IF IsTypeSupported(p, GetMimeType(format)) THEN GetMimeType(format) ELSE MimeVp9

\* The type of the Blob mediaRecorder.onstop assembles.
BlobType(p, format) ==
    IF IsTypeSupported(p, GetMimeType(format)) THEN GetMimeType(format) ELSE MimePlainWebm

ErrNoMediaRecorder == "MediaRecorder is not supported in this browser"
ErrNotSupported == "NotSupportedError"
AlertRecording(msg) == "Failed to record animation: " \o msg

\* catch (error) of recordLiveAnimation, reached before any timer exists.
RecordingFailed(msg, texts) ==
    /\ isExporting' = FALSE
    /\ exportProgress' = RatInt(0)
    /\ exportStatus' = Status(Batched(texts \o <<"">>))
    /\ statusLog' = <<Batched(texts \o <<"">>)>>
    /\ alertMsg' = AlertRecording(msg)
    /\ failed' = TRUE
    /\ download' = None
    /\ UNCHANGED <<recVars, grabVars, liveUrls>>

\* new MediaRecorder(...) to the setTimeout(..., recordingDuration).
StartRecording(format, texts) ==
    /\ isExporting' = TRUE
    /\ exportProgress' = RatInt(0)
    /\ exportStatus' = Status(Batched(texts \o <<"Recording animation...">>))
    /\ statusLog' = <<Batched(texts \o <<"Recording animation...">>)>>
    /\ recorders' = recorders + 1
    /\ recFormat' = format
    /\ recBlobType' = BlobType(platform, format)
    /\ recordedChunks' = 0
    /\ recordingDuration' = RecordingDuration(config)
    /\ elapsed' = 0
    /\ captureIntervals' = captureIntervals + 1
    /\ progressIntervals' = progressIntervals + 1
    /\ stopTimeouts' = stopTimeouts + 1
    /\ framesDrawn' = 0
    /\ grabWarnings' = 0
    /\ alertMsg' = ""
    /\ failed' = FALSE
    /\ download' = None
    /\ UNCHANGED <<onstopQueued, liveUrls>>

\* if (!chartContainerRef.current || !canExport) return
ChartExportRefused(c, ref) == ~ref \/ ~CanExport(c)

\* const recordLiveAnimation = async (outputFormat) => { ... }
RecordLiveAnimation(outputFormat) ==
    /\ lastCall' = "recordLiveAnimation"
    /\ UNCHANGED <<envVars, exportType, gifVars, capVars, brVars, resetTimeouts>>
    /\ IF ChartExportRefused(config, chartRef)
       THEN UNCHANGED <<reactVars, recVars, grabVars, outVars, statusLog, requested, failed>>
       ELSE LET format == EffectiveFormat(platform, outputFormat)
                texts == SetupStatuses(platform, outputFormat)
            IN  /\ requested' = outputFormat
                /\ IF ~HasMediaRecorder(platform)
                   THEN RecordingFailed(ErrNoMediaRecorder, texts)
                   ELSE IF ~IsTypeSupported(platform, RecorderMimeType(platform, format))
                   THEN RecordingFailed(ErrNotSupported, texts)
                   ELSE StartRecording(format, texts)

\* The frame-grab interval's callback: html2canvas and drawImage, or the
\* catch that logs and goes on.
GrabAbortsOnFailure(ok) ==
    IF ok
    THEN /\ framesDrawn' = framesDrawn + 1
         /\ UNCHANGED <<grabWarnings, captureIntervals>>
    ELSE /\ grabWarnings' = grabWarnings + 1
         /\ captureIntervals' = captureIntervals - 1
         /\ UNCHANGED framesDrawn
GrabOutcome(ok) ==
    IF ok
    THEN /\ framesDrawn' = framesDrawn + 1
         /\ UNCHANGED <<grabWarnings, captureIntervals>>
    ELSE /\ grabWarnings' = grabWarnings + 1
         /\ UNCHANGED <<framesDrawn, captureIntervals>>

CaptureTick(ok) ==
    /\ Callback
    /\ captureIntervals > 0
    /\ framesDrawn + grabWarnings < MaxGrabs
    /\ GrabOutcome(ok)
    /\ UNCHANGED <<envVars, reactVars, exportType, gifVars, capVars, brVars,
                   resetTimeouts, outVars, statusLog, obsVars,
                   recorders, recordedChunks, onstopQueued, closureVars,
                   progressIntervals, stopTimeouts>>

\* prev + (100 / (recordingDuration / 1000)), capped
NextProgressUncapped(prev, duration) == RatAdd(prev, Rat(100 * 1000, duration))
NextProgress(prev, duration) ==
    RatMin(RatAdd(prev, Rat(100 * 1000, duration)), RatInt(ProgressCap))

\* The progress interval's callback; one second has passed.
ProgressTick ==
    /\ Callback
    /\ progressIntervals > 0
    /\ elapsed * ProgressPeriodMs < recordingDuration
    /\ elapsed' = elapsed + 1
    /\ exportProgress' = NextProgress(exportProgress, recordingDuration)
    /\ UNCHANGED <<envVars, isExporting, exportStatus, exportType, grabVars, gifVars,
                   capVars, brVars, resetTimeouts, outVars, statusLog, obsVars,
                   recorders, recordedChunks, onstopQueued, timerVars,
                   recFormat, recBlobType, recordingDuration>>

\* mediaRecorder.ondataavailable: if (event.data.size > 0) push
\* The chunks are read by onstop alone, so a delivery commutes with every
\* step before it; the model takes the deliveries between stop() and the
\* stop event, where the recorder delivers what it still holds.
DataAvailable(size) ==
    /\ Callback
    /\ onstopQueued
    /\ recordedChunks < MaxChunks
    /\ size > 0
    /\ recordedChunks' = recordedChunks + 1
    /\ UNCHANGED <<envVars, reactVars, exportType, grabVars, gifVars, capVars, brVars,
                   resetTimeouts, outVars, statusLog, obsVars,
                   recorders, onstopQueued, closureVars, timerVars>>

\* The time at which the stop timeout is due.
StopDueAtOnce(e, duration) == TRUE
StopDue(e, duration) == e * ProgressPeriodMs >= duration

\* setTimeout(() => { clearInterval(...); ...; mediaRecorder.stop() }, recordingDuration)
StopTimeout ==
    /\ Callback
    /\ stopTimeouts > 0
    /\ StopDue(elapsed, recordingDuration)
    /\ stopTimeouts' = stopTimeouts - 1
    /\ captureIntervals' = captureIntervals - 1
    /\ progressIntervals' = progressIntervals - 1
    /\ exportProgress' = RatInt(ProgressCap)
    /\ exportStatus' = Status("Finishing recording...")
    /\ statusLog' = statusLog \o <<"Finishing recording...">>
    /\ IF recorders > 0
       THEN recorders' = recorders - 1 /\ onstopQueued' = TRUE
       ELSE UNCHANGED <<recorders, onstopQueued>>
    /\ UNCHANGED <<envVars, isExporting, exportType, grabVars, gifVars, capVars, brVars,
                   resetTimeouts, outVars, obsVars, recordedChunks, closureVars>>

\* mediaRecorderRef.current.onstop = async () => { ... }
OnStop ==
    /\ Callback
    /\ onstopQueued
    /\ onstopQueued' = FALSE
    /\ IF recFormat = "gif"
       THEN \* convertVideoToGif(videoBlob), to the Promise it returns
            /\ exportStatus' = Status(Batched(<<"Converting video to GIF...",
                                                "Loading video for GIF conversion...">>))
            /\ statusLog' = Append(statusLog, "Loading video for GIF conversion...")
            /\ liveUrls' = liveUrls \cup {"videoUrl"}
            /\ gifPhase' = "loading"
            /\ gifTotalFrames' = 0
            /\ gifCurrentFrame' = 0
            /\ gifFramesAdded' = <<>>
            /\ UNCHANGED <<isExporting, exportProgress, download>>
       ELSE \* createObjectURL, link.click(), revokeObjectURL
            /\ download' = Some(Artifact(GetFileExtension(recFormat), recBlobType,
                                         recordedChunks))
            /\ liveUrls' = (liveUrls \cup {"url"}) \ {"url"}
            /\ SetIdle
            /\ statusLog' = statusLog \o <<"">>
            /\ UNCHANGED gifVars
    /\ DropClosure
    /\ UNCHANGED <<envVars, exportType, capVars, brVars, resetTimeouts,
                   alertMsg, obsVars, recorders, recordedChunks, timerVars>>

\* --------------------------------------------------------- video -> GIF
GifStep ==
    /\ Callback
    /\ UNCHANGED <<envVars, exportType, recVars, grabVars, capVars, brVars,
                   resetTimeouts, alertMsg, requested>>

\* reject(...) inside the Promise convertVideoToGif returned: the function's
\* try has been left (return, not return await), and onstop awaits it
\* outside any try, so nothing handles the rejection.
GifRejected ==
    /\ GifStep
    /\ gifPhase' = "rejected"
    /\ failed' = TRUE
    /\ UNCHANGED <<reactVars, statusLog, liveUrls, download, gifTotalFrames,
                   gifCurrentFrame, gifFramesAdded>>

\* video.onloadedmetadata, to await import('gif.js')
VideoLoadedMetadata ==
    /\ gifPhase = "loading"
    /\ GifStep
    /\ gifPhase' = "importing"
    /\ UNCHANGED <<reactVars, statusLog, liveUrls, download, failed, gifTotalFrames,
                   gifCurrentFrame, gifFramesAdded>>

\* video.onerror = () => reject(new Error('Failed to load video for GIF conversion'))
VideoError ==
    /\ gifPhase \in {"loading", "seeking"}
    /\ GifRejected

\* if (currentFrame >= totalFrames)
AllFramesCapturedEarly(currentFrame, totalFrames) == currentFrame + 1 >= totalFrames
AllFramesCaptured(currentFrame, totalFrames) == currentFrame >= totalFrames

\* const captureFrame = () => { ... }
CaptureFrame ==
    IF AllFramesCaptured(gifCurrentFrame', gifTotalFrames')
    THEN /\ exportStatus' = Status("Generating GIF...")
         /\ statusLog' = statusLog \o <<"Generating GIF...">>
         /\ exportProgress' = RatInt(ProgressCap)
         /\ gifPhase' = "rendering"
         /\ UNCHANGED isExporting
    ELSE /\ gifPhase' = "seeking"
         /\ UNCHANGED <<reactVars, statusLog>>

\* import('gif.js') settles; new GIF(...); totalFrames = Math.floor(duration * 30);
\* video.play()
GifImported(ok, totalFrames) ==
    /\ gifPhase = "importing"
    /\ IF ok
       THEN /\ GifStep
            /\ gifPhase' = "playing"
            /\ gifTotalFrames' = totalFrames
            /\ gifCurrentFrame' = 0
            /\ UNCHANGED <<reactVars, statusLog, liveUrls, download, failed, gifFramesAdded>>
       ELSE /\ totalFrames = 0
            /\ GifRejected

\* video.play().then(() => { video.pause(); captureFrame() })
VideoPlayed(ok) ==
    /\ gifPhase = "playing"
    /\ GifStep
    /\ UNCHANGED <<gifTotalFrames, gifCurrentFrame, gifFramesAdded, liveUrls, download>>
    /\ IF ok
       THEN /\ UNCHANGED failed
            /\ CaptureFrame
       ELSE \* no handler on the rejection: the Promise stays pending
            /\ gifPhase' = "abandoned"
            /\ failed' = TRUE
            /\ UNCHANGED <<reactVars, statusLog>>

\* 80 + (currentFrame / totalFrames) * 15
GifProgress(currentFrame, totalFrames) == Rat(80 * totalFrames + 15 * currentFrame, totalFrames)

\* video.onseeked, to setTimeout(captureFrame, 10)
VideoSeeked ==
    /\ gifPhase = "seeking"
    /\ GifStep
    /\ gifFramesAdded' = Append(gifFramesAdded, gifCurrentFrame)
    /\ gifCurrentFrame' = gifCurrentFrame + 1
    /\ exportProgress' = GifProgress(gifCurrentFrame + 1, gifTotalFrames)
    /\ exportStatus' = FrameStatus(gifCurrentFrame + 1, gifTotalFrames)
    /\ statusLog' = statusLog \o <<"Converting frame k/N...">>
    /\ gifPhase' = "frameTimer"
    /\ UNCHANGED <<isExporting, liveUrls, download, failed, gifTotalFrames>>

\* the setTimeout(captureFrame, 10) fires
CaptureFrameTimer ==
    /\ gifPhase = "frameTimer"
    /\ GifStep
    /\ UNCHANGED <<gifTotalFrames, gifCurrentFrame, gifFramesAdded, liveUrls, download, failed>>
    /\ CaptureFrame

\* gif.on('finished', (blob) => { ... resolve() })
GifFinished ==
    /\ gifPhase = "rendering"
    /\ GifStep
    /\ download' = Some(Artifact("gif", "image/gif", Len(gifFramesAdded)))
    /\ liveUrls' = ((liveUrls \cup {"url"}) \ {"url"}) \ {"videoUrl"}
    /\ SetIdle
    /\ statusLog' = statusLog \o <<"">>
    /\ gifPhase' = "none"
    /\ gifTotalFrames' = 0
    /\ gifCurrentFrame' = 0
    /\ gifFramesAdded' = <<>>
    /\ UNCHANGED failed

\* ------------------------------------------------- HTML5 keyframe export
\* generateKeyframes: for (let i = 0; i <= totalFrames; i++)
KeyframeCount(c) == Max(Len(XColumns(c)), Len(YColumns(c))) + 1

\* const exportAsHTML5Animation = async () => { ... }
ExportAsHTML5Animation ==
    /\ lastCall' = "exportAsHTML5Animation"
    /\ UNCHANGED <<envVars, exportType, recVars, grabVars, gifVars, capVars, brVars>>
    /\ IF ChartExportRefused(config, chartRef)
       THEN UNCHANGED <<reactVars, resetTimeouts, outVars, statusLog, requested, failed>>
       ELSE /\ requested' = "html5"
            /\ failed' = FALSE
            /\ isExporting' = TRUE
            /\ exportProgress' = RatInt(100)
            /\ exportStatus' = Status(Batched(<<"Creating HTML5 animation...",
                "Generating HTML file...", "Creating video from HTML5 animation...",
                "HTML5 animation created! Use Python for more formats.">>))
            /\ statusLog' = <<"HTML5 animation created! Use Python for more formats.">>
            /\ download' = Some(Artifact("html", "text/html", KeyframeCount(config)))
            /\ liveUrls' = (liveUrls \cup {"htmlUrl"}) \ {"htmlUrl"}
            /\ alertMsg' = ""
            /\ resetTimeouts' = resetTimeouts + 1

\* The setTimeout(() => { setIsExporting(false); ... }, 2000 | 3000) fires.
ResetTimeout ==
    /\ Callback
    /\ resetTimeouts > 0
    /\ resetTimeouts' = resetTimeouts - 1
    /\ SetIdle
    /\ statusLog' = statusLog \o <<"">>
    /\ UNCHANGED <<envVars, exportType, recVars, grabVars, gifVars, capVars, brVars,
                   outVars, obsVars>>

\* ------------------------------------------------ backend-assisted capture
FetchOutcomes == {"ok", "httpError", "networkError"}

\* if (!canExport) return
BrowserExportNeverRefused(c) == FALSE
BrowserExportRefused(c) == ~CanExport(c)

\* const exportWithBrowser = async () => { ... }, to the first fetch
ExportWithBrowser ==
    /\ lastCall' = "exportWithBrowser"
    /\ UNCHANGED <<envVars, exportType, recVars, grabVars, gifVars, capVars, resetTimeouts>>
    /\ IF BrowserExportRefused(config)
       THEN UNCHANGED <<reactVars, brVars, outVars, statusLog, requested, failed>>
       ELSE /\ requested' = "browser"
            /\ failed' = FALSE
            /\ isExporting' = TRUE
            /\ exportProgress' = RatInt(10)
            /\ exportStatus' = Status(Batched(<<"Preparing browser capture...",
                                                "Requesting capture script from backend...">>))
            /\ statusLog' = <<"Requesting capture script from backend...">>
            /\ brPhase' = "fetchScript"
            /\ roundTrips' = roundTrips + 1
            /\ requestsSent' = 1
            /\ download' = None
            /\ alertMsg' = ""
            /\ UNCHANGED liveUrls

\* catch (error) of exportWithBrowser
BrowserCatch(msg) ==
    /\ exportStatus' = Status("Error: " \o msg)
    /\ statusLog' = statusLog \o <<"Error: " \o msg>>
    /\ resetTimeouts' = resetTimeouts + 1
    /\ roundTrips' = roundTrips - 1
    /\ requestsSent' = 0
    /\ brPhase' = "none"
    /\ failed' = TRUE
    /\ UNCHANGED <<isExporting, exportProgress, outVars>>

\* What every step of the round trip leaves alone.
BrowserStep ==
    /\ Callback
    /\ UNCHANGED <<envVars, exportType, recVars, grabVars, gifVars, requested>>

\* The first fetch settles; on success executeCaptureScript runs to its
\* setTimeout(..., 60000).
FetchScriptResponse(outcome) ==
    /\ brPhase = "fetchScript"
    /\ BrowserStep
    /\ IF outcome = "ok"
       THEN /\ exportStatus' = Status("Capturing frames in current browser...")
            /\ statusLog' = statusLog \o <<"Capturing frames in current browser...">>
            /\ exportProgress' = RatInt(20)
            /\ brPhase' = "capturing"
            /\ capListener' = TRUE
            /\ capScriptInDoc' = TRUE
            /\ capScriptRunning' = TRUE
            /\ capTimeoutLive' = TRUE
            /\ orphanScripts' = (IF capScriptRunning
                                 THEN Min(orphanScripts + 1, MaxOrphans)
                                 ELSE orphanScripts)
            /\ UNCHANGED <<isExporting, roundTrips, requestsSent, resetTimeouts,
                           outVars, failed>>
       ELSE /\ BrowserCatch(IF outcome = "httpError" THEN "Server error"
                                                     ELSE "Failed to fetch")
            /\ UNCHANGED capVars

\* const handleComplete = (event) => { ... }: the listener and the script are
\* removed; the Promise resolves and exportWithBrowser goes on to its second
\* fetch, or rejects into its catch.  The 60 s timeout stays pending; when it
\* fires it finds nothing to remove and rejects a settled Promise, so the
\* model drops it here.
HandleComplete(success) ==
    /\ capListener' = FALSE
    /\ capScriptInDoc' = FALSE
    /\ capTimeoutLive' = FALSE
    /\ IF success
       THEN /\ exportStatus' = Status("Creating GIF from captured frames...")
            /\ statusLog' = statusLog \o <<"Creating GIF from captured frames...">>
            /\ exportProgress' = RatInt(80)
            /\ brPhase' = "fetchGif"
            /\ requestsSent' = requestsSent + 1
            /\ UNCHANGED <<isExporting, roundTrips, resetTimeouts, outVars, failed>>
       ELSE BrowserCatch("capture script error")

\* The injected script dispatches captureComplete.
CaptureComplete(success) ==
    /\ capScriptRunning
    /\ BrowserStep
    /\ capScriptRunning' = FALSE
    /\ UNCHANGED orphanScripts
    /\ IF capListener
       THEN HandleComplete(success)
       ELSE UNCHANGED <<reactVars, brVars, resetTimeouts, outVars, statusLog, failed,
                        capListener, capScriptInDoc, capTimeoutLive>>

\* The script of a capture that timed out dispatches captureComplete.
OrphanDispatch(success) ==
    /\ orphanScripts > 0
    /\ BrowserStep
    /\ orphanScripts' = orphanScripts - 1
    /\ UNCHANGED capScriptRunning
    /\ IF capListener
       THEN HandleComplete(success)
       ELSE /\ success
            /\ UNCHANGED <<reactVars, brVars, resetTimeouts, outVars, statusLog, failed,
                           capListener, capScriptInDoc, capTimeoutLive>>

\* if (document.head.contains(scriptElement)) { document.head.removeChild(scriptElement) }:
\* whether the script element is in the document afterwards.
ScriptLeftByTimeout == capScriptInDoc
ScriptAfterTimeout == FALSE

\* setTimeout(() => { removeEventListener; removeChild; reject('Capture timeout') }, 60000)
\* of a capture that has not settled.
CaptureTimeout ==
    /\ capTimeoutLive
    /\ BrowserStep
    /\ capTimeoutLive' = FALSE
    /\ capListener' = FALSE
    /\ capScriptInDoc' = ScriptAfterTimeout
    /\ capScriptRunning' = FALSE
    /\ orphanScripts' = (IF capScriptRunning THEN Min(orphanScripts + 1, MaxOrphans)
                                             ELSE orphanScripts)
    /\ BrowserCatch("Capture timeout")

\* The second fetch (create-gif-from-frames) settles.
FetchGifResponse(outcome) ==
    /\ brPhase = "fetchGif"
    /\ BrowserStep
    /\ UNCHANGED capVars
    /\ IF outcome = "ok"
       THEN /\ exportStatus' = Status("Downloading GIF...")
            /\ statusLog' = statusLog \o <<"Downloading GIF...">>
            /\ exportProgress' = RatInt(ProgressCap)
            /\ brPhase' = "fetchDownload"
            /\ requestsSent' = requestsSent + 1
            /\ UNCHANGED <<isExporting, roundTrips, resetTimeouts, outVars, failed>>
       ELSE BrowserCatch(IF outcome = "httpError" THEN "Failed to create GIF"
                                                  ELSE "Failed to fetch")

\* The download fetch settles: if (downloadResponse.ok) { ... } and the
\* success status, whether or not the file was fetched.
DownloadResponse(outcome) ==
    /\ brPhase = "fetchDownload"
    /\ BrowserStep
    /\ UNCHANGED capVars
    /\ IF outcome = "networkError"
       THEN BrowserCatch("Failed to fetch")
       ELSE /\ download' = (IF outcome = "ok"
                            THEN Some(Artifact("gif", "image/gif", requestsSent))
                            ELSE download)
            /\ liveUrls' = (IF outcome = "ok" THEN (liveUrls \cup {"url"}) \ {"url"}
                                              ELSE liveUrls)
            /\ exportProgress' = RatInt(100)
            /\ exportStatus' = Status("Animation created successfully!")
            /\ statusLog' = statusLog \o <<"Animation created successfully!">>
            /\ resetTimeouts' = resetTimeouts + 1
            /\ roundTrips' = roundTrips - 1
            /\ requestsSent' = 0
            /\ brPhase' = "none"
            /\ UNCHANGED <<isExporting, alertMsg, failed>>

\* ------------------------------------------------------------ the controls
\* config.x_columns?.length || 0
ColumnsLength(list) == IF IsSome(list) THEN Len(Get(list)) ELSE 0

\* The component's render: if (!canExport) return <div> the diagnostic </div>,
\* else the format choice, the export button and the progress display.
View(c) ==
    IF ~CanExport(c)
    THEN [ panel |-> "diagnostic",
           items |-> << <<"Animation enabled", c.animation_enabled>>,
                        <<"X columns", c.x_columns, ColumnsLength(c.x_columns)>>,
                        <<"Y columns", c.y_columns, ColumnsLength(c.y_columns)>> >> ]
    ELSE [ panel |-> "controls", items |-> <<>> ]

\* <input type="radio" ... onChange={(e) => setExportType(e.target.value)}>
\* exportType is read by handleExport and by nothing an export runs later, so
\* a selection made during an export commutes with every step of it; the
\* model follows the selections made between exports.
SetExportType(t) ==
    /\ Callback
    /\ ~isExporting
    /\ t # exportType
    /\ exportType' = t
    /\ UNCHANGED <<envVars, reactVars, recVars, grabVars, gifVars, capVars, brVars,
                   resetTimeouts, outVars, statusLog, obsVars>>

\* const handleExport = () => { ... }, run by a click on the enabled button.
\* The render offers the button on an eligible configuration under every
\* exportType but 'browser'; the model calls the handler wherever the button
\* is not disabled, so that each branch and each operation's own guard runs.
HandleExport ==
    /\ ~ExportButtonDisabled
    /\ \/ exportType = "browser" /\ ExportWithBrowser
       \/ exportType = "gif" /\ ExportAsHTML5Animation
       \/ exportType \in {"webm", "mkv"} /\ RecordLiveAnimation(exportType)
       \/ /\ exportType = "python"
          /\ lastCall' = "handleExport (python)"
          /\ UNCHANGED <<envVars, reactVars, exportType, recVars, grabVars, gifVars,
                         capVars, brVars, resetTimeouts, outVars, statusLog,
                         requested, failed>>

\* recordLiveAnimation('gif'): the third value of its parameter, which
\* handleExport does not pass.
RecordLiveAnimationGif ==
    /\ ~ExportButtonDisabled
    /\ RecordLiveAnimation("gif")

\* A click on the button while it is disabled: no handler runs.
ClickDisabled ==
    /\ ExportButtonDisabled
    /\ lastCall' = "click (button disabled)"
    /\ UNCHANGED <<envVars, reactVars, exportType, recVars, grabVars, gifVars, capVars,
                   brVars, resetTimeouts, outVars, statusLog, requested, failed>>

\* ------------------------------------------------------------ specification
ExportNext ==
    \/ \E t \in ExportTypes : SetExportType(t)
    \/ HandleExport
    \/ RecordLiveAnimationGif
    \/ ClickDisabled
    \/ \E ok \in BOOLEAN : CaptureTick(ok)
    \/ ProgressTick
    \/ \E size \in 0..1 : DataAvailable(size)
    \/ StopTimeout
    \/ OnStop
    \/ VideoLoadedMetadata
    \/ VideoError
    \/ \E ok \in BOOLEAN, n \in 0..MaxGifFrames : GifImported(ok, n)
    \/ \E ok \in BOOLEAN : VideoPlayed(ok)
    \/ VideoSeeked
    \/ CaptureFrameTimer
    \/ GifFinished
    \/ ResetTimeout
    \/ \E o \in FetchOutcomes : FetchScriptResponse(o)
    \/ \E ok \in BOOLEAN : CaptureComplete(ok)
    \/ \E ok \in BOOLEAN : OrphanDispatch(ok)
    \/ CaptureTimeout
    \/ \E o \in FetchOutcomes : FetchGifResponse(o)
    \/ \E o \in FetchOutcomes : DownloadResponse(o)

ExportSpec == ExportInit /\ [][ExportNext]_vars

\* ------------------------------------------ the recording duration, by itself
\* recordLiveAnimation called once on each configuration, on a platform that
\* records every format.
DurationInit ==
    Mounted(ChartConfigs(MaxDurationCols, MaxDurationSpeed), {TRUE},
            {[hasMediaRecorder |-> TRUE, supported |-> MimeTypes]})

DurationNext ==
    /\ requested = "none"
    /\ \E outputFormat \in Formats : RecordLiveAnimation(outputFormat)

DurationSpec == DurationInit /\ [][DurationNext]_vars

\* ------------------------------------- one backend round trip, with its time
\* exportWithBrowser followed once from its call, with the time it takes.
\* Time passes in steps of one timeout period while the round trip is in
\* flight; a fetch settles whenever the backend lets it; the capture's
\* timeout fires when its 60 s are over, and before time moves on.
CaptureTimeoutDue == capTimeoutLive /\ captureAge >= CaptureTimeoutMs

Tick ==
    /\ brPhase # "none"
    /\ ~CaptureTimeoutDue
    /\ roundTripAge < MaxPeriods * CaptureTimeoutMs
    /\ roundTripAge' = roundTripAge + CaptureTimeoutMs
    /\ captureAge' = IF capTimeoutLive THEN captureAge + CaptureTimeoutMs ELSE captureAge
    /\ lastCall' = "none"
    /\ UNCHANGED <<propVars, animationVars, appVars, reactVars, exportType, recVars,
                   grabVars, gifVars, capVars, brVars, resetTimeouts, outVars, statusLog,
                   obsVars>>

FirstExportWithBrowser == requested = "none" /\ ExportWithBrowser
DueCaptureTimeout == CaptureTimeoutDue /\ CaptureTimeout

BackendInit == ExportInit

BackendNext ==
    \/ FirstExportWithBrowser
    \/ Tick
    \/ \E o \in FetchOutcomes : FetchScriptResponse(o)
    \/ \E ok \in BOOLEAN : CaptureComplete(ok)
    \/ \E ok \in BOOLEAN : OrphanDispatch(ok)
    \/ DueCaptureTimeout
    \/ \E o \in FetchOutcomes : FetchGifResponse(o)
    \/ \E o \in FetchOutcomes : DownloadResponse(o)
    \/ ResetTimeout

BackendSpec == BackendInit /\ [][BackendNext]_vars

\* ------------------------------------------------------ the Animation Driver
\* ChartAnimator (src/src/utils/dataUtils.ts) and the component that owns one,
\* BrowserChartAnimation.  A call on the animator is made by the component's
\* handler ("handlePreview", "handleRecord") or by any other holder of the
\* animator ("caller").  One action is one run on the event loop: a call up to
\* its first suspension, or one continuation with the microtasks it queues.

\* A call on the animator has ended, or has reached its first await, and has
\* returned nothing the model follows.
Ended(result) ==
    /\ animatorResult' = result
    /\ returned' = None

\* Remove(s, i): the sequence s without its i-th entry.
Remove(s, i) == SubSeq(s, 1, i - 1) \o SubSeq(s, i + 1, Len(s))

\* if (this.frames.length === 0) { this.generateFrames() }
WithFrames(a) ==
    IF Len(a.frames) = 0 THEN [a EXCEPT !.frames = FramesAfterGenerate(a)] ELSE a

\* this.data = data: the animator holds the caller's array itself.
SetDataKeepingReference(d) ==
    /\ animator' = [animator EXCEPT !.data = d]
    /\ callerArray' = [items |-> d, held |-> TRUE]
    /\ Ended("data set")
    /\ UNCHANGED <<config, chartRef, platform, binArgs, clockVars, appVars, exportStateVars,
                   isPlaying, isRecording, previews, recordings>>

\* setData(data), as the data effect of the component or a caller calls it:
\* this.data = [...data], an array of its own.
SetData(d) ==
    /\ animator' = [animator EXCEPT !.data = d]
    /\ callerArray' = [items |-> d, held |-> FALSE]
    /\ Ended("data set")
    /\ UNCHANGED <<config, chartRef, platform, binArgs, clockVars, appVars, exportStateVars,
                   isPlaying, isRecording, previews, recordings>>

\* The owner of the array passed to setData changes it afterwards:
\* data.reverse(), or data.pop().  An animator that holds that very array
\* sees the change.
CallerChangesArray(items) ==
    /\ items # callerArray.items
    /\ callerArray' = [callerArray EXCEPT !.items = items]
    /\ animator' = IF callerArray.held THEN [animator EXCEPT !.data = items] ELSE animator
    /\ Ended("array changed")
    /\ UNCHANGED <<config, chartRef, platform, binArgs, clockVars, appVars, exportStateVars,
                   isPlaying, isRecording, previews, recordings>>

\* [...data].reverse() and data.slice(0, -1)
Reversed(items) == [i \in DOMAIN items |-> items[Len(items) + 1 - i]]
Popped(items) == SubSeq(items, 1, Len(items) - 1)

\* console.warn('No data available for animation')
NoDataWarning == "warning: No data available for animation"

\* generateFrames(), called from outside the animator.
GenerateFrames ==
    /\ animator' = [animator EXCEPT !.frames = FramesAfterGenerate(animator)]
    /\ animatorResult' = IF Len(animator.data) = 0
                         THEN NoDataWarning
                         ELSE "frames generated"
    /\ returned' = Some(GeneratedFrames(animator.data, animator.config))
    /\ UNCHANGED <<pipelineVars, isPlaying, isRecording, previews, recordings>>

\* playPreview(), up to its first await: the first frame is drawn and the
\* loop is suspended; over no frames it returns and the handler's finally
\* runs before any other event.
PlayPreviewCall(by) ==
    /\ Len(previews) < MaxLoops
    /\ animator' = WithFrames(animator)
    /\ IF Len(animator'.frames) = 0
       THEN /\ Ended("preview finished")
            /\ UNCHANGED <<previews, isPlaying>>
       ELSE /\ previews' = Append(previews, [frames |-> animator'.frames, drawn |-> 1, by |-> by])
            /\ isPlaying' = IF by = "handlePreview" THEN TRUE ELSE isPlaying
            /\ Ended("preview started")
    /\ UNCHANGED <<pipelineVars, isRecording, recordings>>

\* A loop that steps over every other frame.
PreviewTimerSkipping(i) ==
    /\ i \in 1..Len(previews)
    /\ IF previews[i].drawn + 1 < Len(previews[i].frames)
       THEN /\ previews' = [previews EXCEPT ![i].drawn = @ + 2]
            /\ Ended("frame drawn")
            /\ UNCHANGED isPlaying
       ELSE /\ previews' = Remove(previews, i)
            /\ Ended("preview finished")
            /\ isPlaying' = IF previews[i].by = "handlePreview" THEN FALSE ELSE isPlaying
    /\ UNCHANGED <<pipelineVars, isRecording, animator, recordings>>

\* The frame delay of the i-th running preview elapses: its loop draws the
\* next frame, or ends and lets the handler that awaited it finish.
PreviewTimer(i) ==
    /\ i \in 1..Len(previews)
    /\ IF previews[i].drawn < Len(previews[i].frames)
       THEN /\ previews' = [previews EXCEPT ![i].drawn = @ + 1]
            /\ Ended("frame drawn")
            /\ UNCHANGED isPlaying
       ELSE /\ previews' = Remove(previews, i)
            /\ Ended("preview finished")
            /\ isPlaying' = IF previews[i].by = "handlePreview" THEN FALSE ELSE isPlaying
    /\ UNCHANGED <<pipelineVars, isRecording, animator, recordings>>

\* if (this.isRecording) { throw new Error('Already recording') }
AlreadyRecordingIgnored == FALSE
AlreadyRecording == animator.isRecording

\* recordToGif(), up to the await in createGifFromFrames: rejected while
\* this.isRecording, else every frame is drawn and captured and the first
\* capture is fetched.  handleRecord's catch and finally follow a rejection
\* before any other event.
RecordToGifCall(by) ==
    /\ IF AlreadyRecording
       THEN /\ Ended("Already recording")
            /\ UNCHANGED <<animator, recordings, isRecording>>
       ELSE /\ animator' = [WithFrames(animator) EXCEPT !.isRecording = TRUE]
            /\ recordings' = Append(recordings, [phase |-> "fetch",
                                                 captured |-> Len(animator'.frames),
                                                 by |-> by])
            /\ isRecording' = IF by = "handleRecord" THEN TRUE ELSE isRecording
            /\ Ended("recording started")
    /\ UNCHANGED <<pipelineVars, isPlaying, previews>>

\* recordToGif() on an animator whose drawFrame or toDataURL throws (no 2d
\* context, a canvas that cannot be exported): the frames are generated, the
\* loop throws at its first frame, and the catch block clears the flag and
\* rethrows.  handleRecord's catch and finally follow.
RecordToGifThrows(by) ==
    /\ ~AlreadyRecording
    /\ Len(WithFrames(animator).frames) > 0
    /\ animator' = [WithFrames(animator) EXCEPT !.isRecording = FALSE]
    /\ Ended("recording failed")
    /\ UNCHANGED <<pipelineVars, isPlaying, isRecording, previews, recordings>>

\* A recordToGif call ends in a rejection that did not pass through its
\* catch block: `return this.createGifFromFrames(frames)` is not awaited.
RecordingRejected(i) ==
    /\ recordings' = Remove(recordings, i)
    /\ isRecording' = IF recordings[i].by = "handleRecord" THEN FALSE ELSE isRecording
    /\ Ended("recording rejected")
    /\ UNCHANGED animator

\* createGifFromFrames: `await fetch(frames[0])` settles.
FetchSettled(i, ok) ==
    /\ i \in 1..Len(recordings)
    /\ recordings[i].phase = "fetch"
    /\ IF ok
       THEN /\ recordings' = [recordings EXCEPT ![i].phase = "blob"]
            /\ Ended("response")
            /\ UNCHANGED <<animator, isRecording>>
       ELSE RecordingRejected(i)
    /\ UNCHANGED <<pipelineVars, isPlaying, previews>>

\* createGifFromFrames: `await response.blob()` settles; the blob is the
\* artifact and handleRecord hands it on or downloads it.
BlobSettled(i, ok) ==
    /\ i \in 1..Len(recordings)
    /\ recordings[i].phase = "blob"
    /\ IF ok
       THEN /\ animator' = [animator EXCEPT !.isRecording = FALSE]
            /\ recordings' = Remove(recordings, i)
            /\ isRecording' = IF recordings[i].by = "handleRecord" THEN FALSE ELSE isRecording
            /\ Ended("artifact")
       ELSE RecordingRejected(i)
    /\ UNCHANGED <<pipelineVars, isPlaying, previews>>

\* disabled={isPlaying || isRecording}, on both buttons
AnimationButtonsDisabled == isPlaying \/ isRecording

\* A click on Preview Animation.
HandlePreview ==
    /\ ~AnimationButtonsDisabled
    /\ ~isPlaying
    /\ PlayPreviewCall("handlePreview")

\* A click on Record GIF.
HandleRecord ==
    /\ ~AnimationButtonsDisabled
    /\ ~isRecording
    /\ RecordToGifCall("handleRecord")

\* A click on Record GIF, on an animator that cannot draw.
HandleRecordThrows ==
    /\ ~AnimationButtonsDisabled
    /\ ~isRecording
    /\ RecordToGifThrows("handleRecord")

\* The same two methods, called by another holder of the animator.
PlayPreview == PlayPreviewCall("caller")
RecordToGif == RecordToGifCall("caller")

AnimatorConfigs == AnimationConfigs(MaxDriverHalfSeconds, MaxDriverFps, {"easeInOut"})
AnimatorArrays == Arrays(DataPoints({0}, {}), MaxDriverPoints)

AnimatorInit ==
    /\ ExportMounted({[animation_enabled |-> FALSE, x_column |-> "a", y_column |-> "p",
                       x_columns |-> None, y_columns |-> None, animation_speed |-> 0]},
                     {TRUE}, {[hasMediaRecorder |-> FALSE, supported |-> {}]})
    /\ AnimationMounted(AnimatorConfigs, AnimatorArrays)
    /\ AppMounted

AnimatorNext ==
    \/ \E d \in AnimatorArrays : SetData(d)
    \/ GenerateFrames
    \/ HandlePreview
    \/ HandleRecord
    \/ PlayPreview
    \/ RecordToGif
    \/ HandleRecordThrows
    \/ RecordToGifThrows("caller")
    \/ \E i \in DOMAIN previews : PreviewTimer(i)
    \/ \E i \in DOMAIN recordings, ok \in BOOLEAN : FetchSettled(i, ok)
    \/ \E i \in DOMAIN recordings, ok \in BOOLEAN : BlobSettled(i, ok)

AnimatorSpec == AnimatorInit /\ [][AnimatorNext]_vars

\* ------------------------------------------------------------ generateFrames
\* generateFrames as a function of the animator's data and configuration:
\* an animator of any of the configurations holds any of the point arrays,
\* and generateFrames is called on it.
FramesConfigs == AnimationConfigs(MaxHalfSeconds, MaxFps, Easings) \cup {ComponentConfig}

FramesInit ==
    /\ ExportMounted({[animation_enabled |-> FALSE, x_column |-> "a", y_column |-> "p",
                       x_columns |-> None, y_columns |-> None, animation_speed |-> 0]},
                     {TRUE}, {[hasMediaRecorder |-> FALSE, supported |-> {}]})
    /\ AnimationMounted(FramesConfigs, Arrays(DataPoints(0..MaxCoord, 0..MaxSize), MaxPoints))
    /\ AppMounted

FramesNext == GenerateFrames

FramesSpec == FramesInit /\ [][FramesNext]_vars

\* --------------------------------------------------------------- applyEasing
\* applyEasing as a function of the configured easing and the progress: an
\* animator of any of the configurations eases any of the progress values.
ProgressValues == {Rat(k, EasingSteps) : k \in 0..EasingSteps}

\* const easedProgress = this.applyEasing(rawProgress)
EasingApplied(progress) ==
    /\ returned' = Some([progress |-> progress,
                         eased |-> ApplyEasing(animator.config.easing, progress)])
    /\ animatorResult' = "eased"
    /\ UNCHANGED <<pipelineVars, isPlaying, isRecording, animator, previews, recordings>>

EasingInit ==
    /\ ExportMounted({[animation_enabled |-> FALSE, x_column |-> "a", y_column |-> "p",
                       x_columns |-> None, y_columns |-> None, animation_speed |-> 0]},
                     {TRUE}, {[hasMediaRecorder |-> FALSE, supported |-> {}]})
    /\ AnimationMounted(AnimationConfigs(MaxHalfSeconds, MaxFps, Easings), {<<>>})
    /\ AppMounted

EasingNext == \E progress \in ProgressValues : EasingApplied(progress)

EasingSpec == EasingInit /\ [][EasingNext]_vars

\* ----------------------------------------------------------------- getScales
\* getScales as a function of the animator's data: the component's animator
\* holds any of the point arrays and a frame is drawn, which computes the
\* scales.

\* const { xScale, yScale } = this.getScales()
ScalesComputed ==
    /\ animator' = animator
    /\ animatorResult' = "scales"
    /\ returned' = Some(GetScales(animator.data))
    /\ UNCHANGED <<pipelineVars, isPlaying, isRecording, previews, recordings>>

ScalesInit ==
    /\ ExportMounted({[animation_enabled |-> FALSE, x_column |-> "a", y_column |-> "p",
                       x_columns |-> None, y_columns |-> None, animation_speed |-> 0]},
                     {TRUE}, {[hasMediaRecorder |-> FALSE, supported |-> {}]})
    /\ AnimationMounted({ComponentConfig},
                        Arrays(DataPoints((0 - MaxCoord)..MaxCoord, {}), MaxPoints))
    /\ AppMounted

ScalesNext == ScalesComputed

ScalesSpec == ScalesInit /\ [][ScalesNext]_vars

\* ----------------------------------------------------------------- drawFrame
\* drawFrame as a function of the frame and the animator's data: an animator
\* holds any of the point arrays, generates its frames and draws them one by
\* one, as exportFrame does; the component draws the complete frame of its
\* data effect; a caller draws a frame of points that carry no opacity.

\* { data: data.map(d => ({ ...d, opacity: 1 })), progress: 1 }
CompleteFrame(data) ==
    [data |-> [i \in DOMAIN data |->
                  [x |-> data[i].x, y |-> RatInt(data[i].y),
                   size |-> IF IsSome(data[i].size) THEN Some(RatInt(Get(data[i].size)))
                            ELSE None,
                   opacity |-> RatInt(1)]],
     progress |-> RatInt(1)]

\* A frame of the data points as they are.
PlainFrame(data) ==
    [data |-> [i \in DOMAIN data |->
                  [x |-> data[i].x, y |-> RatInt(data[i].y),
                   size |-> IF IsSome(data[i].size) THEN Some(RatInt(Get(data[i].size)))
                            ELSE None]],
     progress |-> RatInt(1)]

\* drawFrame(frame)
DrawFrame(frame) ==
    /\ returned' = Some([frame |-> frame, canvas |-> Drawn(frame, animator.data)])
    /\ animatorResult' = "drawn"
    /\ UNCHANGED <<pipelineVars, isPlaying, isRecording, animator, previews, recordings>>

\* exportFrame(frameIndex), frameIndex counted from 1 here.
ExportFrame(frameIndex) ==
    /\ frameIndex <= Len(animator.frames)
    /\ DrawFrame(animator.frames[frameIndex])

\* The data effect of the component: `if (data.length > 0)` it draws the
\* complete frame.
DrawCompleteFrame ==
    /\ Len(animator.data) > 0
    /\ DrawFrame(CompleteFrame(animator.data))

\* drawFrame({ data, progress: 1 }) by a holder of the animator.
DrawPlainFrame == DrawFrame(PlainFrame(animator.data))

DrawInit ==
    /\ ExportMounted({[animation_enabled |-> FALSE, x_column |-> "a", y_column |-> "p",
                       x_columns |-> None, y_columns |-> None, animation_speed |-> 0]},
                     {TRUE}, {[hasMediaRecorder |-> FALSE, supported |-> {}]})
    /\ AnimationMounted(AnimationConfigs(MaxHalfSeconds, MaxDrawFps, Easings),
                        Arrays(DataPoints(0..MaxCoord, {0}), MaxDrawPoints))
    /\ AppMounted

DrawNext ==
    \/ GenerateFrames
    \/ \E frameIndex \in 1..(MaxHalfSeconds * MaxDrawFps) : ExportFrame(frameIndex)
    \/ DrawCompleteFrame
    \/ DrawPlainFrame

DrawSpec == DrawInit /\ [][DrawNext]_vars

\* ------------------------------------------------------- the animator's data
\* The animator's point data under every call: an animator of one
\* configuration is given arrays of points of different x, generates and
\* draws frames, previews and records, while the owner of the array passed
\* to setData goes on changing it.
DataConfig == [duration |-> RatInt(1), fps |-> MaxDriverFps, easing |-> "linear"]
\* Points of y = 0 without a size: they differ in x alone.
DataArrays == Arrays([x : 0..MaxCoord, y : {0}, size : {None}], MaxDriverPoints)

DataInit ==
    /\ ExportMounted({[animation_enabled |-> FALSE, x_column |-> "a", y_column |-> "p",
                       x_columns |-> None, y_columns |-> None, animation_speed |-> 0]},
                     {TRUE}, {[hasMediaRecorder |-> FALSE, supported |-> {}]})
    /\ AnimationMounted({DataConfig}, DataArrays)
    /\ AppMounted

DataNext ==
    \/ \E d \in DataArrays : SetData(d)
    \/ CallerChangesArray(Reversed(callerArray.items))
    \/ CallerChangesArray(Popped(callerArray.items))
    \/ GenerateFrames
    \/ \E frameIndex \in 1..MaxDriverFps : ExportFrame(frameIndex)
    \/ PlayPreview
    \/ RecordToGif
    \/ \E i \in DOMAIN previews : PreviewTimer(i)
    \/ \E i \in DOMAIN recordings, ok \in BOOLEAN : FetchSettled(i, ok)
    \/ \E i \in DOMAIN recordings, ok \in BOOLEAN : BlobSettled(i, ok)

DataSpec == DataInit /\ [][DataNext]_vars

\* ------------------------------------------------------------------- binData
\* binData as a function of its arguments: the rows hold any values of the
\* category column, null among them, and binData is called on them.
BinValues == {None} \cup {Some(v) : v \in (0 - MaxBinValue)..MaxBinValue}

\* transformedData = binData(transformedData, config.category_column,
\*                            config.category_bins || 5, columns)
BinDataCalled ==
    /\ returned' = Some(BinData(binArgs.data, binArgs.numBins, binArgs.isNumeric))
    /\ animatorResult' = "binned"
    /\ UNCHANGED <<pipelineVars, isPlaying, isRecording, animator, previews, recordings>>

BinInit ==
    /\ ExportMounted({[animation_enabled |-> FALSE, x_column |-> "a", y_column |-> "p",
                       x_columns |-> None, y_columns |-> None, animation_speed |-> 0]},
                     {TRUE}, {[hasMediaRecorder |-> FALSE, supported |-> {}]})
    /\ AnimationMounted({ComponentConfig}, {<<>>})
    /\ AppMountedOver(BinArgs(Arrays(BinValues, MaxRows), 1..MaxBins))

BinNext == BinDataCalled

BinSpec == BinInit /\ [][BinNext]_vars

\* ------------------------------------------------------------------ the App
\* App (src/src/App.tsx) and the ChartControls it renders
\* (src/src/types/gif.d.ts).  One action is one event: the handler, the
\* render that follows its state updates, and the effects that render runs.
\* The chartConfig of the App is followed by itself here; the config prop of
\* ExportAnimation stays what it was.

ColumnNames == {"x", "y", "z"}

\* The lists of at most n distinct names.
RECURSIVE DistinctLists(_, _)
DistinctLists(names, n) ==
    IF n = 0 THEN {<<>>}
    ELSE LET shorter == DistinctLists(names, n - 1)
         IN  shorter \cup
             UNION {{Append(l, name) : name \in names \ {l[k] : k \in DOMAIN l}} :
                        l \in {m \in shorter : Len(m) = n - 1}}

\* The column metadata a load delivers: a non-numeric column, then numeric
\* columns of distinct names.
ColumnInfo(name, numeric) == [name |-> name, is_numeric |-> numeric]
ColumnLists ==
    {<<ColumnInfo("category", FALSE)>> \o [k \in DOMAIN l |-> ColumnInfo(l[k], TRUE)] :
        l \in DistinctLists(ColumnNames, MaxColumns)}

\* columns.filter(col => col.is_numeric), and the names of columns
IsNumeric(col) == col.is_numeric
NonNumeric(col) == ~col.is_numeric
NumericColumns(cols) == SelectSeq(cols, IsNumeric)
Names(cols) == {cols[k].name : k \in DOMAIN cols}

\* list[i]?.name || fallback, i counted from 0
NameAt(list, i, fallback) == IF i < Len(list) THEN list[i + 1].name ELSE fallback

\* { ...prev, ...newConfig }
MergeKeepingPrevious(prev, newConfig) == prev
Merge(prev, newConfig) ==
    [f \in DOMAIN prev |-> IF f \in DOMAIN newConfig THEN newConfig[f] ELSE prev[f]]

\* values[0] || config.x_column
FirstOrUndefined(values, column) == IF Len(values) > 0 THEN values[1] ELSE Undefined
FirstOr(values, column) == IF Len(values) > 0 THEN values[1] ELSE column

\* list[n % list.length], n counted from 0; undefined on an empty list
Cycle(list, n) == IF Len(list) = 0 THEN Undefined ELSE list[(n % Len(list)) + 1]

\* The dependencies of the animation control effect that the model follows:
\* animation_enabled and animation_speed by value, x_columns and y_columns
\* by identity (a list in an update is a new array).
EffectDepsChanged(prev, newConfig) ==
    \/ \E f \in DOMAIN newConfig \cap {"x_columns", "y_columns"} : TRUE
    \/ \E f \in DOMAIN newConfig \cap {"animation_enabled", "animation_speed"} :
           newConfig[f] # prev[f]

\* The ids an interval created now must differ from.
IdsInUse(active) == {animationInterval} \cup {i.id : i \in active}
FreshIds(active) == (1..MaxIntervals) \ IdsInUse(active)
FreshId(active) == CHOOSE id \in FreshIds(active) : \A other \in FreshIds(active) : id <= other

\* An effect whose body clears nothing: the cleanup of its last run alone
\* clears a timer.
AnimationEffectCleanupOnly(cfg) ==
    LET afterCleanup == {i \in intervals : i.id # cleanupInterval}
        xColumns == XColumns(cfg)
        yColumns == YColumns(cfg)
        totalCombinations == Max(Len(xColumns), Len(yColumns))
    IN  /\ cleanupInterval' = animationInterval
        /\ IF cfg.animation_enabled /\ totalCombinations > 1
           THEN /\ FreshIds(afterCleanup) # {}
                /\ intervals' = afterCleanup \cup {[id |-> FreshId(afterCleanup),
                                                    xColumns |-> xColumns,
                                                    yColumns |-> yColumns,
                                                    totalCombinations |-> totalCombinations]}
                /\ animationInterval' = FreshId(afterCleanup)
           ELSE /\ intervals' = afterCleanup
                /\ UNCHANGED animationInterval

\* The animation control effect runs again on cfg: the cleanup of its last
\* run, then its body.  Both clear the timer of the animationInterval their
\* own render saw.
AnimationEffect(cfg) ==
    LET afterCleanup == {i \in intervals : i.id # cleanupInterval}
        cleared == {i \in afterCleanup : i.id # animationInterval}
        xColumns == XColumns(cfg)
        yColumns == YColumns(cfg)
        totalCombinations == Max(Len(xColumns), Len(yColumns))
    IN  /\ cleanupInterval' = animationInterval
        /\ IF cfg.animation_enabled /\ totalCombinations > 1
           THEN /\ FreshIds(cleared) # {}
                /\ intervals' = cleared \cup {[id |-> FreshId(cleared),
                                               xColumns |-> xColumns,
                                               yColumns |-> yColumns,
                                               totalCombinations |-> totalCombinations]}
                /\ animationInterval' = FreshId(cleared)
           ELSE /\ intervals' = cleared
                /\ UNCHANGED animationInterval

\* const handleConfigChange = (newConfig) => { setChartConfig(prev => ({ ...prev, ...newConfig })) }
HandleConfigChange(newConfig) ==
    /\ mounted
    /\ chartConfig' = Merge(chartConfig, newConfig)
    /\ lastUpdate' = Some(newConfig)
    /\ IF EffectDepsChanged(chartConfig, newConfig)
       THEN AnimationEffect(chartConfig')
       ELSE UNCHANGED <<animationInterval, cleanupInterval, intervals>>
    /\ UNCHANGED <<notAppVars, columns, animationIndex, mounted>>

\* The X axis MultiSelect: onChange(values)
XColumnsChange(values) ==
    HandleConfigChange([x_columns |-> Some(values),
                        x_column |-> FirstOr(values, chartConfig.x_column)])

\* The Y axis MultiSelect: onChange(values)
YColumnsChange(values) ==
    HandleConfigChange([y_columns |-> Some(values),
                        y_column |-> FirstOr(values, chartConfig.y_column)])

\* MultiSelect.handleOptionClick: an option not yet selected is appended.
Added(selectedValues, option) ==
    /\ option \in Names(NumericColumns(columns))
    /\ \A k \in DOMAIN selectedValues : selectedValues[k] # option
    /\ Len(selectedValues) < MaxSelected

\* MultiSelect.handleRemoveSelected: selectedValues.filter(val => val !== option)
Without(selectedValues, option) ==
    LET Other(val) == val # option IN SelectSeq(selectedValues, Other)

AddXColumn(option) ==
    /\ Added(XColumns(chartConfig), option)
    /\ XColumnsChange(Append(XColumns(chartConfig), option))

RemoveXColumn(option) ==
    /\ \E k \in DOMAIN XColumns(chartConfig) : XColumns(chartConfig)[k] = option
    /\ XColumnsChange(Without(XColumns(chartConfig), option))

AddYColumn(option) ==
    /\ Added(YColumns(chartConfig), option)
    /\ YColumnsChange(Append(YColumns(chartConfig), option))

RemoveYColumn(option) ==
    /\ \E k \in DOMAIN YColumns(chartConfig) : YColumns(chartConfig)[k] = option
    /\ YColumnsChange(Without(YColumns(chartConfig), option))

\* The animation controls are rendered when more than one x or y column is selected.
AnimationControlsShown ==
    \/ (IsSome(chartConfig.x_columns) /\ Len(Get(chartConfig.x_columns)) > 1)
    \/ (IsSome(chartConfig.y_columns) /\ Len(Get(chartConfig.y_columns)) > 1)

\* The Enable Animation checkbox
ToggleAnimation ==
    /\ AnimationControlsShown
    /\ HandleConfigChange([animation_enabled |-> ~chartConfig.animation_enabled])

\* The Animation Speed slider, moved to another value
SetAnimationSpeed(speed) ==
    /\ AnimationControlsShown
    /\ chartConfig.animation_enabled
    /\ speed # chartConfig.animation_speed
    /\ HandleConfigChange([animation_speed |-> speed])

\* setColumns(response.data.columns) and the columns-change effect
ColumnsLoaded(cols) ==
    /\ mounted
    /\ columns' = cols
    /\ LET numericColumns == NumericColumns(cols)
           others == SelectSeq(cols, NonNumeric)
       IN  IF Len(cols) > 0 /\ Len(numericColumns) >= 2
           THEN chartConfig' =
                    Merge(chartConfig,
                          [x_column |-> NameAt(numericColumns, 0, chartConfig.x_column),
                           y_column |-> NameAt(numericColumns, 1, chartConfig.y_column),
                           category_column |-> NameAt(others, 0, Undefined),
                           size_column |-> NameAt(numericColumns, 2, Undefined)])
           ELSE UNCHANGED chartConfig
    /\ lastUpdate' = None
    /\ UNCHANGED <<notAppVars, animationIndex, animationInterval, cleanupInterval, intervals,
                   mounted>>

\* The callback of an active interval timer.  On an unmounted App its state
\* updates are dropped.
AnimationTick(i) ==
    /\ mounted
    /\ i \in intervals
    /\ LET newIndex == (animationIndex + 1) % i.totalCombinations
       IN  /\ animationIndex' = newIndex
           /\ chartConfig' = Merge(chartConfig, [x_column |-> Cycle(i.xColumns, newIndex),
                                                 y_column |-> Cycle(i.yColumns, newIndex)])
    /\ lastUpdate' = None
    /\ UNCHANGED <<notAppVars, columns, animationInterval, cleanupInterval, intervals,
                   mounted>>

\* animationInterval as the render that ran the unmount effect saw it: the
\* first render, where it is null.
FirstRenderInterval == 0

\* The App is unmounted: the cleanup of the animation control effect's last
\* run and the cleanup of the unmount effect run, each clearing the timer of
\* the animationInterval its own render saw.
Unmount ==
    /\ mounted
    /\ mounted' = FALSE
    /\ intervals' = {i \in intervals : i.id \notin {cleanupInterval, FirstRenderInterval}}
    /\ lastUpdate' = None
    /\ UNCHANGED <<notAppVars, chartConfig, columns, animationIndex, animationInterval,
                   cleanupInterval>>

AppInit ==
    /\ ExportMounted({[animation_enabled |-> FALSE, x_column |-> "a", y_column |-> "p",
                       x_columns |-> None, y_columns |-> None, animation_speed |-> 0]},
                     {TRUE}, {[hasMediaRecorder |-> FALSE, supported |-> {}]})
    /\ AnimationMounted({ComponentConfig}, {<<>>})
    /\ AppMounted

AppNext ==
    \/ \E option \in ColumnNames : AddXColumn(option)
    \/ \E option \in ColumnNames : RemoveXColumn(option)
    \/ \E option \in ColumnNames : AddYColumn(option)
    \/ \E option \in ColumnNames : RemoveYColumn(option)
    \/ ToggleAnimation
    \/ \E speed \in 1..MaxSliderSpeed : SetAnimationSpeed(speed)
    \/ \E cols \in ColumnLists : ColumnsLoaded(cols)
    \/ \E i \in intervals : AnimationTick(i)
    \/ Unmount

AppSpec == AppInit /\ [][AppNext]_vars

\* =============================================================== properties
\* The vocabulary of the properties, in the terms of the specification.

\* The length of an optional column list; an absent list has no columns.
ListLength(list) == IF list = None THEN 0 ELSE Len(list[1])

\* An eligible configuration: animation enabled, and more than one x column
\* or more than one y column.
Eligible(c) ==
    /\ c.animation_enabled = TRUE
    /\ (ListLength(c.x_columns) > 1 \/ ListLength(c.y_columns) > 1)

\* The pipeline is idle: not exporting, no progress, no status.
Idle == isExporting = FALSE /\ exportProgress = <<0, 1>> /\ exportStatus.text = ""

\* The three export operations.
ExportOperations == {"recordLiveAnimation", "exportAsHTML5Animation", "exportWithBrowser"}

\* No export has done anything yet.
NothingStarted ==
    /\ Idle
    /\ captureIntervals = 0 /\ progressIntervals = 0 /\ stopTimeouts = 0
    /\ resetTimeouts = 0 /\ capTimeoutLive = FALSE
    /\ recorders = 0 /\ onstopQueued = FALSE
    /\ roundTrips = 0 /\ requestsSent = 0 /\ capListener = FALSE
    /\ gifPhase = "none"
    /\ download = None /\ alertMsg = "" /\ statusLog = <<>> /\ liveUrls = {}

\* C1: an export operation starts work only on an eligible configuration.  On
\* a configuration with animation disabled, or with neither list longer than
\* one column, nothing is ever started; on an eligible one a call of an export
\* operation (with the chart container present, where the operation needs
\* it) is taken up: the pipeline is exporting, or has reported why it cannot.
ExportOnlyWhenEligible ==
    /\ ~Eligible(config) => NothingStarted
    /\ ( /\ Eligible(config)
         /\ lastCall \in ExportOperations
         /\ (chartRef \/ lastCall = "exportWithBrowser") )
       => (isExporting \/ alertMsg # "")

\* C1, its case: animation enabled and two y columns over a single x column,
\* and an export operation has been called and is running.
EligibleExportRuns ==
    /\ config.animation_enabled
    /\ ListLength(config.y_columns) = 2
    /\ ListLength(config.x_columns) <= 1
    /\ lastCall \in ExportOperations
    /\ isExporting

\* C2: a call of an export operation on an ineligible configuration changes
\* none of isExporting, exportProgress, exportStatus, starts no timer, creates
\* no recorder and sends no backend request; what the component presents is
\* the diagnostic listing animation_enabled and the x and y column lists.
IneligibleAttemptDoesNothing ==
    [][ (lastCall' \in ExportOperations /\ ~Eligible(config))
        => /\ UNCHANGED <<isExporting, exportProgress, exportStatus>>
           /\ UNCHANGED <<captureIntervals, progressIntervals, stopTimeouts,
                          resetTimeouts, capTimeoutLive>>
           /\ UNCHANGED <<recorders, onstopQueued, recordedChunks>>
           /\ UNCHANGED <<roundTrips, requestsSent, brPhase, capListener,
                          capScriptInDoc>>
           /\ UNCHANGED <<download, alertMsg, liveUrls, statusLog>>
           /\ View(config').panel = "diagnostic"
           /\ View(config').items[1] = <<"Animation enabled", config.animation_enabled>>
           /\ View(config').items[2][2] = config.x_columns
           /\ View(config').items[3][2] = config.y_columns
      ]_vars

\* C2, its case: an export operation was called on an ineligible
\* configuration that has more than one column but animation disabled.
IneligibleAttemptMade ==
    /\ lastCall \in ExportOperations
    /\ ~config.animation_enabled
    /\ ListLength(config.x_columns) > 1

\* The phases in which a video -> GIF conversion still has a callback to run.
ActiveGifPhases == {"loading", "importing", "playing", "seeking", "frameTimer", "rendering"}

\* Nothing of an export is left to run: no timer, no recorder, no stop event,
\* no conversion callback, no backend round trip.
NothingPending ==
    /\ captureIntervals = 0 /\ progressIntervals = 0 /\ stopTimeouts = 0
    /\ resetTimeouts = 0 /\ capTimeoutLive = FALSE
    /\ recorders = 0 /\ onstopQueued = FALSE
    /\ gifPhase \notin ActiveGifPhases
    /\ brPhase = "none"

ExportFinished == requested # "none" /\ (failed \/ ~isExporting)

RecordingRunsItsDuration ==
    /\ (recFormat # "none" /\ elapsed * 1000 < recordingDuration)
       => (captureIntervals = 1 /\ progressIntervals = 1 /\ recorders = 1 /\ isExporting)
    /\ (captureIntervals > 0 \/ progressIntervals > 0)
       => elapsed * 1000 <= recordingDuration
    /\ (recFormat # "none" /\ (captureIntervals = 0 \/ progressIntervals = 0))
       => /\ elapsed * 1000 >= recordingDuration
          /\ captureIntervals = 0 /\ progressIntervals = 0
          /\ recorders = 0 /\ onstopQueued
    /\ (requested \in {"webm", "mkv"} /\ ~failed /\ recFormat = "none")
       => /\ download # None
          /\ download[1].parts = recordedChunks
          /\ download[1].ext \in {"webm", "mkv"}
          /\ Idle
    /\ (requested = "gif" /\ ~failed /\ recFormat = "none")
       => \/ gifPhase \in ActiveGifPhases
          \/ (download # None /\ download[1].ext = "gif" /\ Idle)

\* C5, its case: a recording ran to its duration, its stop callback has
\* assembled the chunk it was delivered, and the pipeline is idle.
RecordingDownloaded ==
    /\ requested = "webm"
    /\ download # None
    /\ download[1].parts = 1
    /\ recordedChunks = 1
    /\ Idle

\* C6: the recording duration is 2 x (animation_speed x max(len(x_columns),
\* len(y_columns)) x 1000) ms, for every configuration that states its
\* animation_speed; it is 12000 ms for speed 2, three x columns, one y column.
DurationIsTwoCycles ==
    /\ (recFormat # "none" /\ config.animation_speed > 0)
       => recordingDuration =
            2 * (config.animation_speed
                 * (IF ListLength(config.x_columns) >= ListLength(config.y_columns)
                    THEN ListLength(config.x_columns)
                    ELSE ListLength(config.y_columns))
                 * 1000)
    /\ ( /\ recFormat # "none"
         /\ config.animation_speed = 2
         /\ ListLength(config.x_columns) = 3
         /\ ListLength(config.y_columns) = 1 )
       => recordingDuration = 12000

\* C6, its case: a recording was set up at speed 2 on three x columns and one
\* y column.
DurationOfThreeColumns ==
    /\ recFormat # "none"
    /\ config.animation_speed = 2
    /\ ListLength(config.x_columns) = 3
    /\ ListLength(config.y_columns) = 1
    /\ recordingDuration = 12000

\* The mime types of a webm artifact.
WebmMimeTypes == {"video/webm", "video/webm;codecs=vp9", "video/webm;codecs=vp9,opus"}

\* C7: an mkv export on a platform that reports the MKV codec unsupported
\* produces a webm artifact (.webm extension, webm mime type), the export
\* status has shown the note of the fallback on the way, and no error was
\* reported.
MkvFallsBackToWebm ==
    ( /\ requested = "mkv"
      /\ "video/x-matroska;codecs=avc1" \notin platform.supported
      /\ download # None )
    => /\ download[1].ext = "webm"
       /\ download[1].type \in WebmMimeTypes
       /\ \E i \in DOMAIN statusLog : statusLog[i] = "MKV not supported, using WebM..."
       /\ alertMsg = ""
       /\ ~failed

\* C8: without MediaRecorder a live recording fails with the message that
\* names the missing primitive, no interval or timeout timer was started for
\* it, no recorder exists, and the pipeline is idle.
NoRecorderFailsFast ==
    (platform.hasMediaRecorder = FALSE /\ requested \in {"gif", "webm", "mkv"})
    => /\ alertMsg = "Failed to record animation: MediaRecorder is not supported in this browser"
       /\ failed
       /\ captureIntervals = 0 /\ progressIntervals = 0 /\ stopTimeouts = 0
       /\ resetTimeouts = 0
       /\ recorders = 0 /\ onstopQueued = FALSE
       /\ Idle

\* C8, its case: recordLiveAnimation was called for an mkv recording on a
\* platform without MediaRecorder, and has reported the failure.
NoRecorderAttempted ==
    /\ platform.hasMediaRecorder = FALSE
    /\ lastCall = "recordLiveAnimation"
    /\ requested = "mkv"
    /\ alertMsg # ""

\* C9: a failed frame grab is logged and skipped.  Once a grab has failed,
\* the capture interval, the recorder and the export stay as they are until
\* the recording's duration has elapsed, and the recording is stopped at
\* exactly that duration.
FailedGrabIsSkipped ==
    grabWarnings > 0
    => /\ isExporting /\ ~failed /\ alertMsg = ""
       /\ \/ /\ captureIntervals = 1 /\ stopTimeouts = 1 /\ recorders = 1
             /\ elapsed * 1000 <= recordingDuration
          \/ /\ captureIntervals = 0 /\ stopTimeouts = 0 /\ recorders = 0
             /\ onstopQueued
             /\ elapsed * 1000 = recordingDuration

\* C9, its case: a grab failed, the interval fired again after it (a second
\* warning was logged), and the recording was stopped at its duration.
GrabFailedTwiceThenStopped ==
    /\ grabWarnings = 2
    /\ onstopQueued
    /\ elapsed * 1000 = recordingDuration

\* The export operations that have something running.
ActiveOperations ==
    {op \in {"recording", "conversion", "roundTrip", "reset"} :
        \/ op = "recording" /\ (recorders > 0 \/ onstopQueued \/ captureIntervals > 0
                                \/ progressIntervals > 0 \/ stopTimeouts > 0)
        \/ op = "conversion" /\ gifPhase \in ActiveGifPhases
        \/ op = "roundTrip" /\ roundTrips > 0
        \/ op = "reset" /\ resetTimeouts > 0}

\* C10: at most one export operation is active at a time: never a second set
\* of capture and progress timers, a second recorder or a second backend
\* round trip, never two operations of different kinds, and an active
\* operation keeps isExporting true.
OneExportAtATime ==
    /\ captureIntervals <= 1 /\ progressIntervals <= 1 /\ stopTimeouts <= 1
    /\ recorders <= 1
    /\ roundTrips <= 1
    /\ resetTimeouts <= 1
    /\ Cardinality(ActiveOperations) <= 1
    /\ ActiveOperations # {} => isExporting

\* C10, its case: the export button was clicked while a recording was running.
TriggeredWhileRecording ==
    /\ lastCall = "click (button disabled)"
    /\ isExporting
    /\ recorders = 1 /\ captureIntervals = 1 /\ progressIntervals = 1

\* ---- the Animation Driver
\* The calls on the animator that have begun and not ended.
ActiveRuns == Len(previews) + Len(recordings)

\* C11: on one animator a preview and a recording are never both active, and
\* a start request made while a run is active starts no second run: at most
\* one playPreview or recordToGif call is under way at any time.
PreviewAndRecordingExclusive == ActiveRuns <= 1

\* A step that is a recordToGif call, whoever makes it.
RecordToGifCalled == RecordToGifCall("caller") \/ RecordToGifCall("handleRecord")

\* C12: a recordToGif call made while a recording is under way fails with
\* 'Already recording' and leaves the animator as it was (isRecording still
\* true, the cached frames the same) and the recording under way untouched.
SecondRecordingRejected ==
    [][(Len(recordings) > 0 /\ RecordToGifCalled)
        => /\ animatorResult' = "Already recording"
           /\ animator'.isRecording
           /\ animator'.frames = animator.frames
           /\ recordings' = recordings]_vars

\* A recording over cached frames is under way and a second call has just failed.
SecondRecordingAttempted ==
    /\ animatorResult = "Already recording"
    /\ Len(recordings) = 1
    /\ Len(animator.frames) > 0

\* ---- video to GIF
\* The frame indices below n, in increasing order.
FrameIndices(n) == [k \in 1..n |-> k - 1]

GifChoiceTranscodesRecording ==
    (exportType = "gif" /\ isExporting)
        => /\ requested = "gif"
           /\ IsSome(download) => Get(download).ext = "gif"

\* ---- the capture script
\* executeCaptureScript has been called and its Promise has not settled.
CapturePending == brPhase = "capturing"

\* C14: when executeCaptureScript has ended, by the completion event or by
\* its timeout, its captureComplete listener is removed and its script
\* element is out of the document, and nothing is left that could settle its
\* Promise again; until then its listener and its timeout are in place, so
\* it does settle.
CaptureEndsClean ==
    /\ ~CapturePending => ~capListener /\ ~capScriptInDoc /\ ~capTimeoutLive
    /\ CapturePending => capListener /\ capTimeoutLive

\* A capture has ended by its timeout.
CaptureTimedOut ==
    /\ ~CapturePending
    /\ failed
    /\ exportStatus = Status("Error: Capture timeout")

XColumnsUpdated == chartConfig'.x_columns # chartConfig.x_columns
YColumnsUpdated == chartConfig'.y_columns # chartConfig.y_columns

\* C17: an update that sets x_columns to a non-empty list leaves x_column
\* equal to the list's first entry; one that sets it to the empty list leaves
\* x_column as it was, and not undefined.  Likewise y_columns and y_column.
ColumnListMirrored ==
    [][/\ XColumnsUpdated =>
            IF XColumns(chartConfig') # <<>>
            THEN chartConfig'.x_column = XColumns(chartConfig')[1]
            ELSE /\ chartConfig'.x_column = chartConfig.x_column
                 /\ chartConfig'.x_column # Undefined
       /\ YColumnsUpdated =>
            IF YColumns(chartConfig') # <<>>
            THEN chartConfig'.y_column = YColumns(chartConfig')[1]
            ELSE /\ chartConfig'.y_column = chartConfig.y_column
                 /\ chartConfig'.y_column # Undefined]_vars

\* The x selection has been emptied and x_column is still a column name.
ColumnListEmptied ==
    /\ chartConfig.x_columns = Some(<<>>)
    /\ chartConfig.x_column \in ColumnNames

\* C18: whenever x_columns is non-empty x_column is one of its entries, and
\* whenever y_columns is non-empty y_column is one of its entries.
CurrentColumnIsSelected ==
    /\ XColumns(chartConfig) # <<>> => chartConfig.x_column \in Entries(XColumns(chartConfig))
    /\ YColumns(chartConfig) # <<>> => chartConfig.y_column \in Entries(YColumns(chartConfig))

\* C19: handleConfigChange(newConfig) is a pure merge: afterwards every field
\* of newConfig has newConfig's value and every other field of the
\* configuration has the value it had; no field is added or lost.
ConfigChangeIsMerge ==
    [][IsSome(lastUpdate') =>
          /\ DOMAIN chartConfig' = DOMAIN chartConfig
          /\ \A f \in DOMAIN chartConfig :
                 chartConfig'[f] = IF f \in DOMAIN Get(lastUpdate')
                                   THEN Get(lastUpdate')[f]
                                   ELSE chartConfig[f]]_vars

\* An update of x_columns alone has kept an enabled animation and a y_column
\* that are not the initial ones.
MergedIntoChangedConfig ==
    /\ IsSome(lastUpdate)
    /\ DOMAIN Get(lastUpdate) = {"x_columns", "x_column"}
    /\ Len(XColumns(chartConfig)) = MaxSelected
    /\ chartConfig.animation_enabled
    /\ chartConfig.y_column # InitialChartConfig.y_column

\* ---- generateFrames
\* C20: on a non-empty point array generateFrames returns exactly
\* N = floor(duration x fps) frames: N <= duration x fps < N + 1; that is 150
\* frames for duration 5 and fps 30, and no frame, returned normally, for
\* duration 0.
FrameCountIsFloor ==
    (animatorResult = "frames generated" /\ Len(animator.data) > 0) =>
        LET n == Len(animator.frames)
            product == RatMul(animator.config.duration, RatInt(animator.config.fps))
        IN  /\ RatLeq(RatInt(n), product)
            /\ RatLt(product, RatInt(n + 1))
            /\ animator.config = ComponentConfig => n = 150
            /\ animator.config.duration = RatInt(0) => n = 0

\* The component's configuration has produced its 150 frames over two points.
ComponentFramesGenerated ==
    /\ animatorResult = "frames generated"
    /\ animator.config = ComponentConfig
    /\ Len(animator.data) = MaxPoints
    /\ Len(animator.frames) = 150

\* ---- empty data
\* A step is a playPreview call: it starts a loop over frames, or ends at
\* once over none.
PlayPreviewCalled ==
    \/ animatorResult' = "preview started"
    \/ animatorResult' = "preview finished" /\ Len(previews') >= Len(previews)

\* C21: generateFrames on an empty point array returns the empty sequence,
\* with its warning, under every duration and fps; a playPreview that follows
\* it draws no frame and ends at once.
EmptyDataYieldsNoFrames ==
    [][/\ (animator'.data = <<>> /\ IsSome(returned')) =>
              (returned' = Some(<<>>) /\ animatorResult' = NoDataWarning)
       /\ (animatorResult = NoDataWarning /\ PlayPreviewCalled) =>
              (previews' = previews /\ animatorResult' = "preview finished")]_vars

\* ---- generated frames
\* The frames the last generateFrames call returned over a non-empty array.
FramesReturned == IsSome(returned) /\ Len(animator.data) > 0
Returned == Get(returned)

\* The number of points of a frame whose opacity is exactly 1.
OpaqueCount(frame) ==
    Cardinality({j \in DOMAIN frame.data : frame.data[j].opacity = RatInt(1)})

\* C22: in a generated sequence, under every easing, the number of points of
\* opacity exactly 1 does not decrease from a frame to the next.
RevealIsMonotonic ==
    FramesReturned =>
        \A k \in 1..(Len(Returned) - 1) :
            OpaqueCount(Returned[k]) <= OpaqueCount(Returned[k + 1])

\* A sequence of at least four frames in which the count has grown twice.
RevealGrewTwice ==
    /\ FramesReturned
    /\ Len(Returned) >= 4
    /\ \E j, k \in DOMAIN Returned :
           /\ j < k
           /\ 0 < OpaqueCount(Returned[j])
           /\ OpaqueCount(Returned[j]) < OpaqueCount(Returned[k])

\* The points of a frame that are the point pt of the data, fully shown.
ShownAs(frame, pt) ==
    {j \in DOMAIN frame.data :
        /\ frame.data[j].x = pt.x
        /\ frame.data[j].y = RatInt(pt.y)
        /\ frame.data[j].size = (IF IsSome(pt.size) THEN Some(RatInt(Get(pt.size))) ELSE None)
        /\ frame.data[j].opacity = RatInt(1)}

\* C23: the last frame of every non-empty generated sequence holds every
\* point of the data, each with opacity 1.
FinalFrameShowsAllPoints ==
    (FramesReturned /\ Len(Returned) >= 1) =>
        LET final == Returned[Len(Returned)]
        IN  /\ Len(final.data) = Len(animator.data)
            /\ \A i \in DOMAIN animator.data :
                   Cardinality(ShownAs(final, animator.data[i])) =
                       Cardinality({j \in DOMAIN animator.data :
                                       animator.data[j] = animator.data[i]})

\* C24: the progress of every generated frame lies in [0, 1]; within a
\* sequence it starts at 0, ends at 1 and grows strictly with the index.
ProgressRunsFromZeroToOne ==
    (FramesReturned /\ Len(Returned) >= 1) =>
        /\ \A k \in DOMAIN Returned :
               /\ ~IsNaN(Returned[k].progress)
               /\ RatLeq(RatInt(0), Returned[k].progress)
               /\ RatLeq(Returned[k].progress, RatInt(1))
        /\ \A k \in 1..(Len(Returned) - 1) :
               RatLt(Returned[k].progress, Returned[k + 1].progress)
        /\ Returned[1].progress = RatInt(0)
        /\ Returned[Len(Returned)].progress = RatInt(1)

\* ---- the frame cache
\* A step starts a playPreview loop or a recordToGif run.
RunStarted == Len(previews') > Len(previews) \/ Len(recordings') > Len(recordings)

\* C25: every playPreview loop and every recordToGif run draws the frames
\* generated from the data the animator holds when the run starts.
RunDrawsCurrentData ==
    [][RunStarted =>
          /\ animator'.frames = GeneratedFrames(animator.data, animator.config)
          /\ Len(previews') > Len(previews) =>
                 previews'[Len(previews')].frames =
                     GeneratedFrames(animator.data, animator.config)]_vars

\* ---- scales
ScalesReturned == animatorResult = "scales" /\ IsSome(returned)
XValues == [i \in DOMAIN animator.data |-> animator.data[i].x]
YValues == [i \in DOMAIN animator.data |-> animator.data[i].y]

\* The pixel of the least coordinate is a number between the bounds.
Between(pixel, low, high) ==
    /\ Finite(pixel)
    /\ RatLeq(RatInt(low), pixel)
    /\ RatLeq(pixel, RatInt(high))

\* C26: over a non-empty point array the x domain is
\* [min(x) - 0.1 range, max(x) + 0.1 range], likewise the y domain, and
\* xScale(min(x)) lies between paddingLeft and paddingLeft + chartWidth; over
\* an empty array both domains are [0, 1] (and getScales returns).
DomainsPaddedByTenth ==
    ScalesReturned =>
        IF animator.data = <<>>
        THEN /\ Returned.xDomain = <<RatInt(0), RatInt(1)>>
             /\ Returned.yDomain = <<RatInt(0), RatInt(1)>>
        ELSE LET xRange == MaxOf(XValues) - MinOf(XValues)
                 yRange == MaxOf(YValues) - MinOf(YValues)
             IN  /\ Returned.xDomain = <<Rat(10 * MinOf(XValues) - xRange, 10),
                                           Rat(10 * MaxOf(XValues) + xRange, 10)>>
                 /\ Returned.yDomain = <<Rat(10 * MinOf(YValues) - yRange, 10),
                                           Rat(10 * MaxOf(YValues) + yRange, 10)>>
                 /\ \A i \in DOMAIN XValues :
                        XValues[i] = MinOf(XValues) =>
                            Between(Returned.xPixels[i], PaddingLeft, PaddingLeft + ChartWidth)

\* C27: when all points have the same x, or the same y, xScale and yScale
\* give every point a finite pixel coordinate.
EqualCoordinatesScaleFinite ==
    (ScalesReturned /\ animator.data # <<>>) =>
        /\ MinOf(XValues) = MaxOf(XValues) =>
               \A i \in DOMAIN XValues : Finite(Returned.xPixels[i])
        /\ MinOf(YValues) = MaxOf(YValues) =>
               \A i \in DOMAIN YValues : Finite(Returned.yPixels[i])

\* ---- bins
Binned == animatorResult = "binned" /\ IsSome(returned)
BinValuesGiven == NonNullValues(binArgs.data)

\* The k-th of numBins ranges of width w = (max - min) / numBins over the
\* values, and its label.
BinLow(k) ==
    RatAdd(RatInt(MinOf(BinValuesGiven)),
           Rat(k * (MaxOf(BinValuesGiven) - MinOf(BinValuesGiven)), binArgs.numBins))
BinRange(k) == RangeLabel(BinLow(k), BinLow(k + 1))

\* C28: binning a numeric category column gives every non-null value exactly
\* one of the numBins ranges [min + k w, min + (k + 1) w], 0 <= k < numBins,
\* a range that holds the value; the maximum gets the last range.  (Where
\* all values are equal the ranges coincide and each value gets the one bin.)
EveryValueInOneBin ==
    (Binned /\ binArgs.isNumeric /\ BinValuesGiven # <<>>) =>
        \A i \in DOMAIN binArgs.data :
            IsSome(binArgs.data[i]) =>
                LET v == Get(binArgs.data[i])
                    bins == {k \in 0..(binArgs.numBins - 1) : Returned[i] = BinRange(k)}
                IN  IF MinOf(BinValuesGiven) = MaxOf(BinValuesGiven)
                    THEN Returned[i] = SingleBinLabel(RatInt(v))
                    ELSE /\ Cardinality(bins) = 1
                         /\ \A k \in bins :
                                /\ RatLeq(BinLow(k), RatInt(v))
                                /\ RatLeq(RatInt(v), BinLow(k + 1))
                                /\ v = MaxOf(BinValuesGiven) => k = binArgs.numBins - 1

\* Three values were binned into three bins, the maximum into the last.
MaximumInLastBin ==
    /\ Binned
    /\ binArgs.isNumeric
    /\ binArgs.numBins = MaxBins
    /\ Len(BinValuesGiven) = MaxRows
    /\ \E i, j \in DOMAIN binArgs.data :
           /\ Returned[i] = BinRange(MaxBins - 1)
           /\ Returned[j] = BinRange(1)

\* ---- easing
Eased == animatorResult = "eased" /\ IsSome(returned)

\* C29: every easing maps 0 to 0 and 1 to 1, and easeInOut maps 1/2 to 1/2.
EasingKeepsEndpoints ==
    Eased =>
        /\ Returned.progress = RatInt(0) => Returned.eased = RatInt(0)
        /\ Returned.progress = RatInt(1) => Returned.eased = RatInt(1)
        /\ (animator.config.easing = "easeInOut" /\ Returned.progress = Rat(1, 2)) =>
               Returned.eased = Rat(1, 2)

\* easeInOut has been applied to 1/2.
EaseInOutAtHalf ==
    /\ Eased
    /\ animator.config.easing = "easeInOut"
    /\ Returned.progress = Rat(1, 2)
    /\ Returned.eased = Rat(1, 2)

\* ---- frame content
\* The data in the order the frames reveal it: ascending by x.
Ascending(points) == \A i, j \in DOMAIN points : i < j => points[i].x <= points[j].x

\* What frame i (from 0) of n frames holds over the sorted points, by the
\* rule: the first pointsToShow = floor(ease(i / (n - 1)) x totalPoints)
\* points; each unchanged with opacity 1, except that the last of them, while
\* points are still missing, has opacity entryProgress, its final size (size,
\* or 5 without one) times entryProgress, and y on the way from y + 50 to y.
FrameByRule(sorted, easing, n, i) ==
    LET eased == ApplyEasing(easing, Rat(i, n - 1))
        scaled == RatMul(eased, RatInt(Len(sorted)))
        pointsToShow == Floor(scaled)
        entryProgress == RatSub(scaled, RatInt(pointsToShow))
        Unchanged(pt) ==
            [x |-> pt.x, y |-> RatInt(pt.y),
             size |-> IF IsSome(pt.size) THEN Some(RatInt(Get(pt.size))) ELSE None,
             opacity |-> RatInt(1)]
        FinalSize(pt) ==
            IF IsSome(pt.size) /\ Get(pt.size) # 0 THEN Get(pt.size) ELSE 5
        Entering(pt) ==
            [x |-> pt.x,
             y |-> RatSub(RatInt(pt.y + 50), RatMul(RatInt(50), entryProgress)),
             size |-> Some(RatMul(RatInt(FinalSize(pt)), entryProgress)),
             opacity |-> entryProgress]
    IN  [j \in 1..pointsToShow |->
            IF j = pointsToShow /\ pointsToShow < Len(sorted)
            THEN Entering(sorted[j])
            ELSE Unchanged(sorted[j])]

\* C30: every frame of a generated sequence of two or more frames holds
\* what the frame content rule gives for its index over the data sorted
\* ascending by x.
FramesFollowContentRule ==
    (FramesReturned /\ Len(Returned) >= 2) =>
        /\ Ascending(SortByX(animator.data))
        /\ \A k \in DOMAIN Returned :
               Returned[k].data =
                   FrameByRule(SortByX(animator.data), animator.config.easing,
                               Len(Returned), k - 1)

\* A frame shows a point in full and the next, whose size is 0, on its way
\* in, while a third is still missing.
PointEntering ==
    /\ FramesReturned
    /\ Len(Returned) >= 2
    /\ Len(animator.data) = MaxPoints
    /\ \E k \in DOMAIN Returned :
           /\ Len(Returned[k].data) = MaxPoints - 1
           /\ OpaqueCount(Returned[k]) = MaxPoints - 2
           /\ RatLt(RatInt(0), Returned[k].data[MaxPoints - 1].opacity)
           /\ SortByX(animator.data)[MaxPoints - 1].size = Some(0)

\* C31: frames are drawn in index order, each once per run.  A playPreview
\* run draws frame 1 of the frames it found when it is called; each time its
\* delay elapses it draws the frame after the one it drew last, over the same
\* frames; it ends only when it has drawn the last one.  A recordToGif call
\* draws and captures as many frames as the animator holds.
FramesDrawnInOrder ==
    [][/\ Len(previews') = Len(previews) =>
            \A j \in DOMAIN previews :
                /\ previews'[j].frames = previews[j].frames
                /\ previews'[j].drawn \in {previews[j].drawn, previews[j].drawn + 1}
                /\ previews'[j].drawn <= Len(previews[j].frames)
       /\ Len(previews') > Len(previews) =>
            /\ previews' = Append(previews, previews'[Len(previews')])
            /\ previews'[Len(previews')].frames = animator'.frames
            /\ previews'[Len(previews')].drawn = 1
            /\ Len(animator'.frames) >= 1
       /\ Len(previews') < Len(previews) =>
            \E i \in DOMAIN previews :
                /\ previews' = Remove(previews, i)
                /\ previews[i].drawn = Len(previews[i].frames)
       /\ Len(recordings') > Len(recordings) =>
            recordings'[Len(recordings')].captured = Len(animator'.frames)
      ]_vars

\* Two previews run over the same canvas, one has drawn its last frame and
\* the other is behind it.
TwoPreviewsInStep ==
    \E i, j \in DOMAIN previews :
        /\ Len(previews[i].frames) >= 2
        /\ previews[i].drawn = Len(previews[i].frames)
        /\ previews[j].drawn < Len(previews[j].frames)
        /\ animatorResult = "frame drawn"

\* What the last drawFrame was given, and what it put on the canvas.
FrameDrawn == animatorResult = "drawn"
DrawnFrame == Get(returned).frame
Canvas == Get(returned).canvas

\* C32: drawFrame draws each point with the opacity the frame carries: a
\* point of opacity o, 0 included, is filled and stroked with alpha o, and
\* only a point without an opacity is drawn with alpha 1.
PointsDrawnAtFrameOpacity ==
    FrameDrawn =>
        /\ DOMAIN Canvas.circles = DOMAIN DrawnFrame.data
        /\ \A i \in DOMAIN DrawnFrame.data :
              LET expected == IF HasOpacity(DrawnFrame.data[i])
                              THEN DrawnFrame.data[i].opacity
                              ELSE RatInt(1)
              IN  /\ Canvas.circles[i].fillAlpha = expected
                  /\ Canvas.circles[i].strokeAlpha = expected

\* A live recording is under way: its stop callback has not run yet.
LiveRecording == recFormat # "none"

\* C33: during live recording the export progress stays within [0, 95]: a
\* tick of the progress interval adds 100 / (recordingDuration in seconds)
\* and caps the sum at 95, and the progress never decreases while recording.
ProgressStaysUnderCap ==
    [][/\ LiveRecording' =>
            /\ RatLeq(RatInt(0), exportProgress')
            /\ RatLeq(exportProgress', RatInt(ProgressCap))
       /\ (LiveRecording /\ LiveRecording') => RatLeq(exportProgress, exportProgress')
       /\ (LiveRecording /\ elapsed' = elapsed + 1) =>
            LET sum == RatAdd(exportProgress, Rat(100000, recordingDuration))
            IN  exportProgress' = IF RatLeq(sum, RatInt(ProgressCap)) THEN sum
                                  ELSE RatInt(ProgressCap)
      ]_vars

\* The last tick of the progress interval has run into the cap, and the stop
\* timeout has not fired yet.
ProgressCappedByTick ==
    /\ LiveRecording
    /\ progressIntervals = 1
    /\ stopTimeouts = 1
    /\ elapsed >= 2
    /\ exportProgress = RatInt(ProgressCap)

\* The animation is enabled over more than one combination of columns.
Cycling ==
    /\ chartConfig.animation_enabled
    /\ Max(Len(XColumns(chartConfig)), Len(YColumns(chartConfig))) > 1

\* C34: while the animation cycles, x_column and y_column are the entries of
\* x_columns and y_columns at the current animationIndex (modulo the length
\* of each list), whenever both lists have entries.
CurrentColumnsAtAnimationIndex ==
    (Cycling /\ XColumns(chartConfig) # <<>> /\ YColumns(chartConfig) # <<>>) =>
        /\ chartConfig.x_column = Cycle(XColumns(chartConfig), animationIndex)
        /\ chartConfig.y_column = Cycle(YColumns(chartConfig), animationIndex)

\* C35: after the App is unmounted no column-cycling interval timer is
\* active.
NoTimerAfterUnmount == ~mounted => intervals = {}

\* C36: at most one column-cycling interval timer is active at any time, and
\* none while animation_enabled is false or max(len(x_columns),
\* len(y_columns)) <= 1.
AtMostOneCyclingTimer ==
    /\ Cardinality(intervals) <= 1
    /\ ~Cycling => intervals = {}

\* The speed has been changed while the animation cycles: the effect has
\* run again, and the one timer that is active is the one it created.
TimerReplaced ==
    /\ mounted
    /\ Cycling
    /\ chartConfig.animation_speed # InitialChartConfig.animation_speed
    /\ cleanupInterval # 0
    /\ animationInterval # cleanupInterval
    /\ \E i \in intervals : intervals = {i} /\ i.id = animationInterval

\* C37: whenever every recordToGif call has completed, with an artifact or
\* with a failure at any step, the animator's isRecording flag is false, so
\* that a later call is not rejected with 'Already recording'.
FlagClearedAfterRecording == recordings = <<>> => ~animator.isRecording

\* C38: no call on the animator but setData changes its point data, which
\* stays the same points in the same order with the same field values, also
\* when the owner of the array passed to setData changes that array
\* afterwards; the points of the frames come from the data as it is.
DataLeftUnchanged ==
    [][/\ animatorResult' # "data set" => animator'.data = animator.data
       /\ animatorResult' = "data set" => animator'.data = callerArray'.items
       /\ IsSome(returned') /\ animatorResult' = "frames generated" =>
            Get(returned') = GeneratedFrames(animator.data, animator.config)
      ]_vars

\* The owner has reversed the array it passed to setData, after the
\* animator generated frames over these points, which are not in x order.
CallerArrayDiverged ==
    /\ animatorResult = "array changed"
    /\ Len(animator.data) = MaxDriverPoints
    /\ animator.data # callerArray.items
    /\ animator.data # SortByX(animator.data)
    /\ Len(animator.frames) > 0

====
